---- MODULE Spec2Model ----
(***************************************************************************)
(* GROMACS export of an OpenFF Interchange: to_top and its section writers *)
(* (openff/interchange/interop/internal/gromacs.py) and the bond writer of *)
(* the legacy exporter (openff/system/interop/internal.py).                *)
(*                                                                         *)
(* The exported model (openff_sys) is the variable sys; the target file is *)
(* the pair (opened, top_file): opened says that open(path, "w") has run   *)
(* (the file was created or truncated), top_file is the sequence of lines  *)
(* written to it.  Every statement of to_top is one action; a writer that  *)
(* raises leaves in top_file what it wrote before the raise, and the       *)
(* exception is kept in err.  The legacy exporter's _write_atomtypes and    *)
(* _write_bonds run on the same model and write legacy_file.  to_gro       *)
(* writes the coordinate file gro_file, and from_gro reads it back into    *)
(* interchange; the lines of gro_file are sequences of characters.         *)
(***************************************************************************)
EXTENDS Integers, Sequences, FiniteSets, TLC

VARIABLES sys, pc, opened, top_file, err, typemap, virtual_site_map, legacy_pc, legacy_file,
          gro_pc, gro_file, decimal, interchange

vars == <<sys, pc, opened, top_file, err, typemap, virtual_site_map, legacy_pc, legacy_file,
          gro_pc, gro_file, decimal, interchange>>

\* the state of the coordinate export (to_gro) and of the reader (from_gro)
gro_vars == <<gro_pc, gro_file, decimal, interchange>>

(***************************************************************************)
(* Bounds of the explored inputs.                                          *)
(***************************************************************************)
\* number of bonds (of angles) of the chain molecules whose slot maps are varied
NVaried == 2
\* largest number of tuples yielded by _iterate_pairs
MaxPairYields == 3
\* largest number of virtual sites of a model
MaxVS == 2

(***************************************************************************)
(* Lines of the output file.  A line is a section header or a row of a     *)
(* section; a row keeps the values that were formatted into it.            *)
(***************************************************************************)
Header(sec) == [sec |-> sec, hdr |-> TRUE, f |-> <<>>]
Row(sec, f) == [sec |-> sec, hdr |-> FALSE, f |-> f]

\* result of a writer: the lines it wrote and the exception it raised
Ok(out) == [out |-> out, err |-> "none"]
Raise(out, e) == [out |-> out, err |-> e]

Range(s) == {s[i] : i \in DOMAIN s}
Reverse(t) == [i \in 1..Len(t) |-> t[Len(t) + 1 - i]]

\* sorted(...) of a tuple of distinct-or-equal integers, ascending
RECURSIVE SortedTuple(_)
SortedTuple(t) ==
    IF Len(t) = 0 THEN <<>>
    ELSE LET lo == CHOOSE i \in DOMAIN t : \A j \in DOMAIN t : t[i] <= t[j]
             rest == [j \in 1..(Len(t) - 1) |-> IF j < lo THEN t[j] ELSE t[j + 1]]
         IN <<t[lo]>> \o SortedTuple(rest)

(***************************************************************************)
(* Handler names and mixing rules.                                         *)
(***************************************************************************)
ValenceHandlers == {"Bonds", "Angles", "ProperTorsions", "RBTorsions", "ImproperTorsions"}
HandlerNames == {"vdW", "Buckingham-6", "Electrostatics", "VirtualSites"} \cup ValenceHandlers
MixingRules == {"lorentz-berthelot", "geometric", "buckingham", "other"}

(***************************************************************************)
(* Keys of the slot maps.  A slot map is a dict: a sequence of entries     *)
(* (key, pot) in insertion order, no key twice.                            *)
(***************************************************************************)
TopologyKey(t) == [cls |-> "TopologyKey", atom_indices |-> t, mult |-> 0, type |-> "none"]
TorsionKey(t, m) == [cls |-> "TopologyKey", atom_indices |-> t, mult |-> m, type |-> "none"]
VirtualSiteKey(t, ty) == [cls |-> "VirtualSiteKey", atom_indices |-> t, mult |-> 0, type |-> ty]
Entry(key, pot) == [key |-> key, pot |-> pot]

\* d[key] of a dict: whether it raises KeyError, and its value otherwise
DictHas(d, key) == \E i \in DOMAIN d : d[i].key = key
DictGet(d, key) == d[CHOOSE i \in DOMAIN d : d[i].key = key].pot

(***************************************************************************)
(* _write_top_defaults (gromacs.py 362-410)                                *)
(***************************************************************************)
\* mutation of comb_rule: code 2 whatever the mixing rule
comb_rule_always_2(mixing_rule) == 2

\* lines 384-395, for the mixing rules that pass the check of line 396
comb_rule(mixing_rule) == IF mixing_rule = "geometric" THEN 3 ELSE 2

_write_top_defaults(s) ==
    LET head == <<Header("defaults")>>
        handler_key == IF "vdW" \in s.handlers THEN "vdW" ELSE "Buckingham-6"
        nbfunc == IF "vdW" \in s.handlers THEN 1 ELSE 2
        mixing_rule == s.mixing_rule[handler_key]
    IN  IF "vdW" \notin s.handlers /\ "Buckingham-6" \notin s.handlers
        THEN Raise(head, "UnsupportedExportError")
        ELSE IF ~(\/ mixing_rule = "lorentz-berthelot"
                  \/ mixing_rule = "geometric"
                  \/ (mixing_rule = "buckingham" /\ handler_key = "Buckingham-6"))
        THEN Raise(head, "UnsupportedExportError")
        ELSE IF "Electrostatics" \notin s.handlers
        THEN Raise(head, "KeyError")
        ELSE Ok(head \o <<Row("defaults",
                    [nbfunc |-> nbfunc, comb_rule |-> comb_rule(mixing_rule), gen_pairs |-> "no",
                     scale_lj |-> s.scale_14[handler_key],
                     scale_qq |-> s.scale_14["Electrostatics"]])>>)

(***************************************************************************)
(* _build_typemap (gromacs.py 413-431): element symbol and the running     *)
(* count of that element, per atom (typemap[a + 1] is the type of atom a). *)
(***************************************************************************)
_build_typemap(s) ==
    [a \in 1..s.n_atoms |->
        [element |-> s.elements[a],
         count |-> Cardinality({b \in 1..a : s.elements[b] = s.elements[a]})]]

\* mutation of _build_virtual_site_map: the first virtual site gets index N
_build_virtual_site_map_off_by_one(s) ==
    IF "VirtualSites" \notin s.handlers THEN <<>>
    ELSE [k \in 1..Len(s.slot_map["VirtualSites"]) |->
            Entry(s.slot_map["VirtualSites"][k].key, s.n_atoms + (k - 1))]

(***************************************************************************)
(* _build_virtual_site_map (gromacs.py 434-450): a dict from the keys of   *)
(* the VirtualSites slot map, in its iteration order, to particle indices. *)
(***************************************************************************)
_build_virtual_site_map(s) ==
    IF "VirtualSites" \notin s.handlers THEN <<>>
    ELSE [k \in 1..Len(s.slot_map["VirtualSites"]) |->
            Entry(s.slot_map["VirtualSites"][k].key, s.n_atoms + 1 + (k - 1))]

(***************************************************************************)
(* _get_lj_parameters, _get_buck_parameters (gromacs.py 1074-1091)         *)
(***************************************************************************)
_get_lj_parameters(s, atom_idx) ==
    IF "vdW" \notin s.handlers THEN [err |-> "KeyError"]
    ELSE IF ~DictHas(s.slot_map["vdW"], TopologyKey(<<atom_idx>>)) THEN [err |-> "KeyError"]
    ELSE [err |-> "none",
          parameters |-> s.potentials["vdW"][DictGet(s.slot_map["vdW"], TopologyKey(<<atom_idx>>))]]

_get_buck_parameters(s, atom_idx) ==
    IF "Buckingham-6" \notin s.handlers THEN [err |-> "KeyError"]
    ELSE IF ~DictHas(s.slot_map["Buckingham-6"], TopologyKey(<<atom_idx>>)) THEN [err |-> "KeyError"]
    ELSE [err |-> "none",
          parameters |-> s.potentials["Buckingham-6"][DictGet(s.slot_map["Buckingham-6"], TopologyKey(<<atom_idx>>))]]

\* the lines of one statement followed by those of the rest of the function
Then(lines, rest) == [out |-> lines \o rest.out, err |-> rest.err]

(***************************************************************************)
(* _write_atomtypes_lj (gromacs.py 474-530)                                *)
(***************************************************************************)
RECURSIVE lj_atom_rows(_, _, _)
lj_atom_rows(s, tm, atom_idx) ==
    IF atom_idx >= Len(tm) THEN Ok(<<>>)
    ELSE LET p == _get_lj_parameters(s, atom_idx)
         IN  IF p.err # "none" THEN Raise(<<>>, p.err)
             ELSE Then(<<Row("atomtypes",
                        [type |-> tm[atom_idx + 1], atomic_number |-> tm[atom_idx + 1].element,
                         sigma |-> p.parameters.sigma, epsilon |-> p.parameters.epsilon])>>,
                       lj_atom_rows(s, tm, atom_idx + 1))

RECURSIVE lj_virtual_site_rows(_, _, _)
lj_virtual_site_rows(s, vsm, k) ==
    IF k > Len(vsm) THEN Ok(<<>>)
    ELSE IF ~DictHas(s.slot_map["vdW"], vsm[k].key) THEN Raise(<<>>, "KeyError")
    ELSE LET parameters == s.potentials["vdW"][DictGet(s.slot_map["vdW"], vsm[k].key)]
         IN  Then(<<Row("atomtypes",
                    [type |-> "VS", atomic_number |-> 0,
                     sigma |-> parameters.sigma, epsilon |-> parameters.epsilon])>>,
                  lj_virtual_site_rows(s, vsm, k + 1))

_write_atomtypes_lj(s, tm, vsm) ==
    LET atoms == lj_atom_rows(s, tm, 0)
    IN  IF atoms.err # "none" THEN Then(<<Header("atomtypes")>>, atoms)
        ELSE Then(<<Header("atomtypes")>> \o atoms.out, lj_virtual_site_rows(s, vsm, 1))

(***************************************************************************)
(* _write_atomtypes_buck (gromacs.py 533-560)                              *)
(***************************************************************************)
RECURSIVE buck_atom_rows(_, _, _)
buck_atom_rows(s, tm, atom_idx) ==
    IF atom_idx >= Len(tm) THEN Ok(<<>>)
    ELSE LET p == _get_buck_parameters(s, atom_idx)
         IN  IF p.err # "none" THEN Raise(<<>>, p.err)
             ELSE Then(<<Row("atomtypes",
                        [type |-> tm[atom_idx + 1], atomic_number |-> tm[atom_idx + 1].element,
                         a |-> p.parameters.A, b |-> p.parameters.B, c |-> p.parameters.C])>>,
                       buck_atom_rows(s, tm, atom_idx + 1))

_write_atomtypes_buck(s, tm) == Then(<<Header("atomtypes")>>, buck_atom_rows(s, tm, 0))

(***************************************************************************)
(* _write_atomtypes (gromacs.py 453-471)                                   *)
(***************************************************************************)
\* mutation of _write_atomtypes: the Lennard-Jones section is written whenever
\* "vdW" is present, "Buckingham-6" being present or not
_write_atomtypes_lj_first(s, tm, vsm) ==
    IF "vdW" \in s.handlers THEN _write_atomtypes_lj(s, tm, vsm)
    ELSE IF "Buckingham-6" \in s.handlers THEN _write_atomtypes_buck(s, tm)
    ELSE Raise(<<>>, "UnsupportedExportError")

_write_atomtypes(s, tm, vsm) ==
    IF "vdW" \in s.handlers
    THEN IF "Buckingham-6" \in s.handlers
         THEN Raise(<<>>, "UnsupportedExportError")
         ELSE _write_atomtypes_lj(s, tm, vsm)
    ELSE IF "Buckingham-6" \in s.handlers
         THEN _write_atomtypes_buck(s, tm)
         ELSE Raise(<<>>, "UnsupportedExportError")

(***************************************************************************)
(* _write_moleculetype (gromacs.py 563-567)                                *)
(***************************************************************************)
_write_moleculetype == Ok(<<Header("moleculetype"), Row("moleculetype", [name |-> "MOL", nrexcl |-> 3])>>)

(***************************************************************************)
(* _write_atoms (gromacs.py 570-671): the [ atoms ] rows of the atoms and  *)
(* of the virtual sites, then [ pairs ].  pairs is the set built from      *)
(* _iterate_pairs; order is the order in which the loop visits that set.   *)
(***************************************************************************)
ISqrt(n) == CHOOSE r \in 0..n : r * r <= n /\ (r + 1) * (r + 1) > n

atom_rows(s, tm) ==
    [a \in 1..s.n_atoms |->
        Row("atoms", [num |-> (a - 1) + 1, type |-> tm[a], resnum |-> s.residue[a] + 1,
                      cgnr |-> (a - 1) + 1, charge |-> s.charges[a]])]

virtual_site_atom_rows(s, vsm) ==
    [k \in 1..Len(vsm) |->
        Row("atoms", [num |-> vsm[k].pot, type |-> "VS", resnum |-> 1,
                      cgnr |-> vsm[k].pot, charge |-> s.charges_with_virtual_sites[k]])]

\* mutation of sigma_mix: the arithmetic mean whatever the mixing rule
sigma_mix_always_arithmetic(mixing_rule, sigma1, sigma2) == (sigma1 + sigma2) \div 2

\* lines 659-662 (the potentials of the models make the means exact integers)
sigma_mix(mixing_rule, sigma1, sigma2) ==
    IF mixing_rule = "lorentz-berthelot" THEN (sigma1 + sigma2) \div 2
    ELSE ISqrt(sigma1 * sigma2)

RECURSIVE pair_rows(_, _, _, _, _)
pair_rows(s, mixing_rule, scale_lj, order, n) ==
    IF n > Len(order) THEN Ok(<<>>)
    ELSE LET indices == SortedTuple(order[n])
             p1 == _get_lj_parameters(s, indices[1])
             p2 == _get_lj_parameters(s, indices[2])
         IN  IF p1.err # "none" THEN Raise(<<>>, p1.err)
             ELSE IF p2.err # "none" THEN Raise(<<>>, p2.err)
             ELSE IF mixing_rule \notin {"lorentz-berthelot", "geometric"}
             THEN Raise(<<>>, "UnboundLocalError")
             ELSE LET sigma1 == p1.parameters.sigma
                      sigma2 == p2.parameters.sigma
                      epsilon_mix == ISqrt(p1.parameters.epsilon * p2.parameters.epsilon)
                  IN  Then(<<Row("pairs",
                             [ai |-> indices[1] + 1, aj |-> indices[2] + 1, funct |-> 1,
                              sigma |-> sigma_mix(mixing_rule, sigma1, sigma2),
                              epsilon |-> epsilon_mix * scale_lj])>>,
                           pair_rows(s, mixing_rule, scale_lj, order, n + 1))

\* the orders in which a loop can visit the elements of a set
OrdersOf(S) ==
    {o \in [1..Cardinality(S) -> S] : \A i, j \in DOMAIN o : i # j => o[i] # o[j]}

_write_atoms(s, tm, vsm, order) ==
    LET handler_key == IF "vdW" \in s.handlers THEN "vdW" ELSE "Buckingham-6"
    IN  Then(<<Header("atoms")>> \o atom_rows(s, tm) \o virtual_site_atom_rows(s, vsm)
                \o <<Header("pairs")>>,
             pair_rows(s, s.mixing_rule[handler_key], s.scale_14[handler_key], order, 1))

(***************************************************************************)
(* _write_bonds (gromacs.py 884-919).  pot_key is a local of the function: *)
(* unbound until a slot-map entry matches, deleted after each row.         *)
(***************************************************************************)
Unbound == [bound |-> FALSE, key |-> 0]
Bound(pot) == [bound |-> TRUE, key |-> pot]

\* lines 897-900: the two tests of the scan
bond_key_matches(top_key, indices) ==
    \/ top_key.atom_indices = indices
    \/ top_key.atom_indices = Reverse(indices)

\* lines 896-900: the scan of the whole slot map, the last match wins
RECURSIVE bond_scan(_, _, _, _)
bond_scan(slot_map, indices, n, pot_key) ==
    IF n > Len(slot_map) THEN pot_key
    ELSE bond_scan(slot_map, indices, n + 1,
                   IF bond_key_matches(slot_map[n].key, indices)
                   THEN Bound(slot_map[n].pot) ELSE pot_key)

\* mutation of bond_pot_key_after_row: pot_key survives the iteration
bond_pot_key_kept(pot_key) == pot_key

\* line 917: del pot_key
bond_pot_key_after_row(pot_key) == Unbound

\* mutation of bond_indices: the declared order is kept
bond_indices_declared(bond) == bond

\* line 895: indices = tuple(sorted((bond.atom1.index, bond.atom2.index)))
bond_indices(bond) == SortedTuple(bond)

RECURSIVE bond_rows(_, _, _)
bond_rows(s, n, pot_key0) ==
    IF n > Len(s.bonds) THEN Ok(<<>>)
    ELSE LET indices == bond_indices(s.bonds[n])
             pot_key == bond_scan(s.slot_map["Bonds"], indices, 1, pot_key0)
         IN  IF ~pot_key.bound THEN Raise(<<>>, "UnboundLocalError")
             ELSE LET params == s.potentials["Bonds"][pot_key.key]
                  IN  Then(<<Row("bonds",
                             [ai |-> indices[1] + 1, aj |-> indices[2] + 1, funct |-> 1,
                              length |-> params.length, k |-> params.k,
                              bond |-> n, pot |-> pot_key.key])>>,
                           bond_rows(s, n + 1, bond_pot_key_after_row(pot_key)))

_write_bonds(s) ==
    IF "Bonds" \notin s.handlers THEN Ok(<<>>)
    ELSE Then(<<Header("bonds")>>, bond_rows(s, 1, Unbound))

(***************************************************************************)
(* _write_angles (gromacs.py 922-958).  pot_key is bound by the scan of    *)
(* the slot map and is never deleted.                                      *)
(***************************************************************************)
\* line 940: the test of the scan
angle_key_matches(top_key, indices) == top_key.atom_indices = indices

RECURSIVE angle_scan(_, _, _, _)
angle_scan(slot_map, indices, n, pot_key) ==
    IF n > Len(slot_map) THEN pot_key
    ELSE angle_scan(slot_map, indices, n + 1,
                    IF angle_key_matches(slot_map[n].key, indices)
                    THEN Bound(slot_map[n].pot) ELSE pot_key)

RECURSIVE angle_rows(_, _, _)
angle_rows(s, n, pot_key0) ==
    IF n > Len(s.angles) THEN Ok(<<>>)
    ELSE LET indices == s.angles[n]
             pot_key == angle_scan(s.slot_map["Angles"], indices, 1, pot_key0)
         IN  IF ~pot_key.bound THEN Raise(<<>>, "UnboundLocalError")
             ELSE LET params == s.potentials["Angles"][pot_key.key]
                  IN  Then(<<Row("angles",
                             [ai |-> indices[1] + 1, aj |-> indices[2] + 1, ak |-> indices[3] + 1,
                              funct |-> 1, theta |-> params.angle, k |-> params.k,
                              angle |-> n, pot |-> pot_key.key])>>,
                           angle_rows(s, n + 1, pot_key))

_write_angles(s) ==
    IF "Angles" \notin s.handlers THEN Ok(<<>>)
    ELSE Then(<<Header("angles")>>, angle_rows(s, 1, Unbound))

(***************************************************************************)
(* _write_dihedrals (gromacs.py 961-1057): one row per slot-map entry      *)
(* whose atom indices equal the torsion's, in declared order.              *)
(***************************************************************************)
\* lines 981, 1005, 1038
torsion_key_matches(top_key, indices) == top_key.atom_indices = indices

\* lines 979-1000 (func 1), 1003-1031 (func 3), 1036-1057 (func 4)
RECURSIVE torsion_rows(_, _, _, _, _, _)
torsion_rows(s, handler, func, indices, tor, n) ==
    IF n > Len(s.slot_map[handler]) THEN <<>>
    ELSE (IF torsion_key_matches(s.slot_map[handler][n].key, indices)
          THEN <<Row("dihedrals",
                  [ai |-> indices[1] + 1, aj |-> indices[2] + 1,
                   ak |-> indices[3] + 1, al |-> indices[4] + 1, funct |-> func,
                   params |-> s.potentials[handler][s.slot_map[handler][n].pot],
                   torsion |-> tor])>>
          ELSE <<>>) \o torsion_rows(s, handler, func, indices, tor, n + 1)

RECURSIVE proper_rows(_, _)
proper_rows(s, n) ==
    IF n > Len(s.propers) THEN <<>>
    ELSE (IF "ProperTorsions" \in s.handlers
          THEN torsion_rows(s, "ProperTorsions", 1, s.propers[n], <<"proper", n>>, 1)
          ELSE <<>>)
         \o (IF "RBTorsions" \in s.handlers
             THEN torsion_rows(s, "RBTorsions", 3, s.propers[n], <<"proper", n>>, 1)
             ELSE <<>>)
         \o proper_rows(s, n + 1)

RECURSIVE improper_rows(_, _)
improper_rows(s, n) ==
    IF n > Len(s.impropers) THEN <<>>
    ELSE (IF "ImproperTorsions" \in s.handlers
          THEN torsion_rows(s, "ImproperTorsions", 4, s.impropers[n], <<"improper", n>>, 1)
          ELSE <<>>)
         \o improper_rows(s, n + 1)

_write_dihedrals(s) ==
    IF /\ "ProperTorsions" \notin s.handlers
       /\ "RBTorsions" \notin s.handlers
       /\ "ImproperTorsions" \notin s.handlers
    THEN Ok(<<>>)
    ELSE Ok(<<Header("dihedrals")>> \o proper_rows(s, 1) \o improper_rows(s, 1))

(***************************************************************************)
(* _write_virtual_sites (gromacs.py 674-871)                               *)
(***************************************************************************)
SupportedVirtualSiteTypes == {"BondCharge", "MonovalentLonePair", "DivalentLonePair"}

RECURSIVE KeysOfType(_, _, _)
KeysOfType(slot_map, ty, n) ==
    IF n > Len(slot_map) THEN <<>>
    ELSE (IF slot_map[n].key.cls = "VirtualSiteKey" /\ slot_map[n].key.type = ty
          THEN <<slot_map[n].key>> ELSE <<>>) \o KeysOfType(slot_map, ty, n + 1)

\* mutation of sorted_virtual_site_keys: the keys are visited in declaration order
virtual_site_keys_unsorted(slot_map) == [n \in 1..Len(slot_map) |-> slot_map[n].key]

\* lines 694-697: sorted(..., key=lambda x: x.type), a stable sort by the type
\* string: "BondCharge" < "DivalentLonePair" < "MonovalentLonePair"
sorted_virtual_site_keys(slot_map) ==
    KeysOfType(slot_map, "BondCharge", 1)
        \o KeysOfType(slot_map, "DivalentLonePair", 1)
        \o KeysOfType(slot_map, "MonovalentLonePair", 1)

\* the parameters of a virtual site (lines 713-716 and the like)
virtual_site_parameters(s, key) ==
    s.potentials["VirtualSites"][DictGet(s.slot_map["VirtualSites"], key)]

\* mutation of bond_charge_reference_atoms: the parents are sorted
bond_charge_reference_atoms_sorted(key) == SortedTuple(key.atom_indices)

\* line 703: the parents of a BondCharge site, as declared
bond_charge_reference_atoms(key) == key.atom_indices

\* lines 698-724: the row of a BondCharge site
bond_charge_row(s, vsm, key) ==
    LET reference_atoms == bond_charge_reference_atoms(key)
    IN  IF Len(reference_atoms) # 2 THEN Raise(<<>>, "NotImplementedError")
        ELSE Ok(<<Row("virtual_sites2",
                  [site |-> DictGet(vsm, key),
                   ai |-> reference_atoms[1] + 1, aj |-> reference_atoms[2] + 1,
                   funct |-> 2, a |-> virtual_site_parameters(s, key).distance])>>)

\* mutation of monovalent_out_of_plane: every angle is taken as in the plane
monovalent_out_of_plane_never(out_of_plane_angle) == FALSE

\* line 751
monovalent_out_of_plane(out_of_plane_angle) == out_of_plane_angle # 0

\* mutation of monovalent_reference_atoms: the parents are kept as declared
monovalent_reference_atoms_declared(key) == key.atom_indices

\* line 733
monovalent_reference_atoms(key) == SortedTuple(key.atom_indices)

\* lines 733-777: the row of a MonovalentLonePair site
monovalent_row(s, vsm, key) ==
    LET reference_atoms == monovalent_reference_atoms(key)
        parameters == virtual_site_parameters(s, key)
    IN  IF Len(reference_atoms) # 3 THEN Raise(<<>>, "NotImplementedError")
        ELSE IF monovalent_out_of_plane(parameters.outOfPlaneAngle)
        THEN Raise(<<>>, "NotImplementedError")
        ELSE Ok(<<Row("virtual_sites3",
                  [site |-> DictGet(vsm, key),
                   ai |-> reference_atoms[1] + 1, aj |-> reference_atoms[2] + 1,
                   ak |-> reference_atoms[3] + 1, funct |-> 3,
                   a |-> 180 - parameters.inPlaneAngle, b |-> parameters.distance])>>)

\* openff_sys[handler].slot_map[key] followed by .potentials[...] (lines 798-823)
direct_lookup(s, handler, key) ==
    IF handler \notin s.handlers THEN [err |-> "LookupError"]
    ELSE IF ~DictHas(s.slot_map[handler], key) THEN [err |-> "KeyError"]
    ELSE [err |-> "none", parameters |-> s.potentials[handler][DictGet(s.slot_map[handler], key)]]

\* lines 788-806: bond1_key and bond2_key of a DivalentLonePair site
divalent_bond_keys(key) ==
    LET reference_atoms == SortedTuple(key.atom_indices)
    IN  <<TopologyKey(<<reference_atoms[1], reference_atoms[2]>>),
          TopologyKey(<<reference_atoms[1], reference_atoms[3]>>)>>

\* math.cos(angle / 2.0) at the angles of the models (101 to 112 degrees), to
\* three decimals, as a fraction
cos_half(angle) ==
    [num |-> <<636, 629, 623, 616, 609, 602, 595, 588, 581, 574, 566, 559>>[angle - 100],
     den |-> 1000]

\* mutation of divalent_a: the division by 2.0 is left out
divalent_a_not_halved(distance, angle, bond1_length) ==
    [num |-> (-1) * distance * cos_half(angle).den,
     den |-> cos_half(angle).num * bond1_length]

\* line 844: -1.0 * distance / (math.cos(angle / 2.0) * bond1_length) / 2.0,
\* as a fraction
divalent_a(distance, angle, bond1_length) ==
    [num |-> (-1) * distance * cos_half(angle).den,
     den |-> cos_half(angle).num * bond1_length * 2]

\* lines 786-861: the row of a DivalentLonePair site.  Out of the plane, the
\* coefficients are kept as the operands of the formulas of lines 852-857.
divalent_row(s, vsm, key) ==
    LET reference_atoms == SortedTuple(key.atom_indices)
        atom1 == reference_atoms[1]
        atom2 == reference_atoms[2]
        atom3 == reference_atoms[3]
        bond1 == direct_lookup(s, "Bonds", divalent_bond_keys(key)[1])
        bond2 == direct_lookup(s, "Bonds", divalent_bond_keys(key)[2])
        angle == direct_lookup(s, "Angles", TopologyKey(<<atom2, atom1, atom3>>))
        parameters == virtual_site_parameters(s, key)
    IN  IF Len(reference_atoms) # 3 THEN Raise(<<>>, "NotImplementedError")
        ELSE IF bond1.err # "none" THEN Raise(<<>>, bond1.err)
        ELSE IF bond2.err # "none" THEN Raise(<<>>, bond2.err)
        ELSE IF bond1.parameters.length # bond2.parameters.length
        THEN Raise(<<>>, "NotImplementedError")
        ELSE IF angle.err # "none" THEN Raise(<<>>, angle.err)
        ELSE IF parameters.outOfPlaneAngle = 0
        THEN LET a == divalent_a(parameters.distance, angle.parameters.angle,
                                 bond1.parameters.length)
             IN  Ok(<<Row("virtual_sites3",
                      [site |-> DictGet(vsm, key),
                       ai |-> atom1 + 1, aj |-> atom2 + 1, ak |-> atom3 + 1,
                       funct |-> 1, a |-> a, b |-> a])>>)
        ELSE Ok(<<Row("virtual_sites3",
                  [site |-> DictGet(vsm, key),
                   ai |-> atom1 + 1, aj |-> atom2 + 1, ak |-> atom3 + 1,
                   funct |-> 4,
                   distance |-> parameters.distance,
                   out_of_plane_angle |-> parameters.outOfPlaneAngle,
                   angle |-> angle.parameters.angle,
                   bond1_length |-> bond1.parameters.length])>>)

\* lines 694-861: the loop over the sorted keys
RECURSIVE virtual_site_rows(_, _, _, _, _, _)
virtual_site_rows(s, vsm, keys, n, started_virtual_sites2, started_virtual_sites3) ==
    IF n > Len(keys) THEN Ok(<<>>)
    ELSE LET key == keys[n]
             is2 == key.type = "BondCharge"
             head == IF is2
                     THEN (IF started_virtual_sites2 THEN <<>> ELSE <<Header("virtual_sites2")>>)
                     ELSE (IF started_virtual_sites3 THEN <<>> ELSE <<Header("virtual_sites3")>>)
             row == IF is2 THEN bond_charge_row(s, vsm, key)
                    ELSE IF key.type = "MonovalentLonePair" THEN monovalent_row(s, vsm, key)
                    ELSE divalent_row(s, vsm, key)
         IN  IF row.err # "none" THEN Then(head, row)
             ELSE Then(head \o row.out,
                       virtual_site_rows(s, vsm, keys, n + 1,
                                         started_virtual_sites2 \/ is2,
                                         started_virtual_sites3 \/ ~is2))

\* mutation of exclusion_rows: the lines follow the order of the sorted keys
exclusion_rows_sorted(s, vsm) ==
    LET keys == sorted_virtual_site_keys(s.slot_map["VirtualSites"])
    IN  [n \in 1..Len(keys) |->
            Row("exclusions",
                [site |-> DictGet(vsm, keys[n]),
                 parents |-> [i \in DOMAIN keys[n].atom_indices |->
                                keys[n].atom_indices[i] + 1]])]

\* lines 863-871
exclusion_rows(s, vsm) ==
    [n \in 1..Len(s.slot_map["VirtualSites"]) |->
        Row("exclusions",
            [site |-> DictGet(vsm, s.slot_map["VirtualSites"][n].key),
             parents |-> [i \in DOMAIN s.slot_map["VirtualSites"][n].key.atom_indices |->
                            s.slot_map["VirtualSites"][n].key.atom_indices[i] + 1]])]

\* mutation of _write_virtual_sites: the types are not checked beforehand
_write_virtual_sites_unchecked(s, vsm) ==
    IF "VirtualSites" \notin s.handlers THEN Ok(<<>>)
    ELSE LET rows == virtual_site_rows(s, vsm, sorted_virtual_site_keys(s.slot_map["VirtualSites"]),
                                       1, FALSE, FALSE)
         IN  IF rows.err # "none" THEN rows
             ELSE Ok(rows.out \o <<Header("exclusions")>> \o exclusion_rows(s, vsm))

_write_virtual_sites(s, vsm) ==
    IF "VirtualSites" \notin s.handlers THEN Ok(<<>>)
    ELSE IF \E n \in DOMAIN s.slot_map["VirtualSites"] :
                s.slot_map["VirtualSites"][n].key.type \notin SupportedVirtualSiteTypes
    THEN Raise(<<>>, "NotImplementedError")
    ELSE LET rows == virtual_site_rows(s, vsm, sorted_virtual_site_keys(s.slot_map["VirtualSites"]),
                                       1, FALSE, FALSE)
         IN  IF rows.err # "none" THEN rows
             ELSE Ok(rows.out \o <<Header("exclusions")>> \o exclusion_rows(s, vsm))

(***************************************************************************)
(* _write_system (gromacs.py 1060-1071)                                    *)
(***************************************************************************)
_write_system ==
    Ok(<<Header("system"), Row("system", [name |-> "System name"]),
         Header("molecules"), Row("molecules", [compound |-> "MOL", nmols |-> 1])>>)

(***************************************************************************)
(* _write_bonds of the legacy exporter (openff/system/interop/internal.py  *)
(* 228-262).  Its slot map is keyed by str(indices); two such strings are  *)
(* equal exactly when the index tuples are.  The potentials table holds    *)
(* the potentials the slot map names, so it is empty when the slot map is. *)
(***************************************************************************)
\* internal.py line 240
system_bond_indices(bond) == SortedTuple(bond)

RECURSIVE system_bond_rows(_, _)
system_bond_rows(s, n) ==
    IF n > Len(s.bonds) THEN Ok(<<>>)
    ELSE LET indices == system_bond_indices(s.bonds[n])
         IN  IF ~DictHas(s.slot_map["Bonds"], TopologyKey(indices))
             THEN Raise(<<>>, "Exception")
             ELSE LET params == s.potentials["Bonds"][DictGet(s.slot_map["Bonds"], TopologyKey(indices))]
                  IN  Then(<<Row("bonds",
                             [ai |-> indices[1] + 1, aj |-> indices[2] + 1, funct |-> 1,
                              length |-> params.length, k |-> params.k, bond |-> n])>>,
                           system_bond_rows(s, n + 1))

system_write_bonds(s) ==
    IF "Bonds" \notin s.handlers THEN Raise(<<>>, "KeyError")
    ELSE IF Len(s.slot_map["Bonds"]) = 0 THEN Ok(<<>>)
    ELSE Then(<<Header("bonds")>>, system_bond_rows(s, 1))

\* internal.py 131-145: the type name of every atom; elements[element_symbol] is set to 0
\* when the element is first met and never changed
system_typemap(s) ==
    [a \in 1..s.n_atoms |-> [element |-> s.elements[a], count |-> 0]]

\* internal.py 152-171: one row per entry of typemap
RECURSIVE system_atomtype_rows(_, _, _)
system_atomtype_rows(s, tm, a) ==
    IF a > Len(tm) THEN Ok(<<>>)
    ELSE LET p == _get_lj_parameters(s, a - 1)
         IN  IF p.err # "none" THEN Raise(<<>>, p.err)
             ELSE Then(<<Row("atomtypes",
                        [type |-> tm[a], atomic_number |-> s.elements[a], atom |-> a - 1,
                         sigma |-> p.parameters.sigma, epsilon |-> p.parameters.epsilon])>>,
                      system_atomtype_rows(s, tm, a + 1))

\* internal.py 129-173
system_write_atomtypes(s) ==
    Then(<<Header("atomtypes")>>, system_atomtype_rows(s, system_typemap(s), 1))

(***************************************************************************)
(* Text of the coordinate file.  A line is a sequence of characters.  A    *)
(* number is a record [neg, int, frac]: sign, integer part and fractional  *)
(* part in units of 10^-9.                                                 *)
(***************************************************************************)
RECURSIVE Pow10(_)
Pow10(n) == IF n = 0 THEN 1 ELSE 10 * Pow10(n - 1)

Num(neg, int, frac) == [neg |-> neg, int |-> int, frac |-> frac]

DigitChars == <<"0", "1", "2", "3", "4", "5", "6", "7", "8", "9">>

RECURSIVE Digits(_)
Digits(n) ==
    IF n < 10 THEN <<DigitChars[n + 1]>>
    ELSE Digits(n \div 10) \o <<DigitChars[(n % 10) + 1]>>

Fill(c, n) == [i \in 1..n |-> c]

\* right-justified (%5d, %8.3f) and left-justified (%-5s) fields: padded to
\* the width, never truncated
PadLeft(chars, width) ==
    IF Len(chars) >= width THEN chars ELSE Fill(" ", width - Len(chars)) \o chars
PadRight(chars, width) ==
    IF Len(chars) >= width THEN chars ELSE chars \o Fill(" ", width - Len(chars))

\* np.round(x, n): x rounded to n decimals, ties to the even neighbour
Round(x, n) ==
    LET unit == Pow10(9 - n)
        q == x.frac \div unit
        r == x.frac % unit
        up == 2 * r > unit \/ (2 * r = unit /\ q % 2 = 1)
        q1 == IF up THEN q + 1 ELSE q
    IN  IF q1 = Pow10(n) THEN Num(x.neg, x.int + 1, 0)
        ELSE Num(x.neg, x.int, q1 * unit)

\* "%{width}.{n}f" % x
FormatF(x, width, n) ==
    LET y == Round(x, n)
        digits == Digits(y.frac \div Pow10(9 - n))
        fraction == Fill("0", n - Len(digits)) \o digits
    IN  PadLeft((IF y.neg THEN <<"-">> ELSE <<>>)
                    \o Digits(y.int) \o <<".">> \o fraction,
                width)

\* "%{width}d" % v, v not negative
FormatD(v, width) == PadLeft(Digits(v), width)

\* str.strip() and str.split() on blanks
RECURSIVE Strip(_)
Strip(chars) ==
    IF chars = <<>> THEN <<>>
    ELSE IF Head(chars) = " " THEN Strip(Tail(chars))
    ELSE IF chars[Len(chars)] = " " THEN Strip(SubSeq(chars, 1, Len(chars) - 1))
    ELSE chars

RECURSIVE Split(_)
Split(chars) ==
    LET body == Strip(chars)
    IN  IF body = <<>> THEN <<>>
        ELSE LET blanks == {i \in DOMAIN body : body[i] = " "}
                 cut == IF blanks = {} THEN Len(body) + 1
                        ELSE CHOOSE i \in blanks : \A j \in blanks : i <= j
             IN  <<SubSeq(body, 1, cut - 1)>> \o Split(SubSeq(body, cut + 1, Len(body)))

IsDigits(chars) == chars # <<>> /\ \A i \in DOMAIN chars : chars[i] \in Range(DigitChars)

RECURSIVE Value(_)
Value(digits) ==
    IF digits = <<>> THEN 0
    ELSE 10 * Value(SubSeq(digits, 1, Len(digits) - 1))
            + (CHOOSE d \in 0..9 : DigitChars[d + 1] = digits[Len(digits)])

\* int(chars) for texts of blanks and digits: blanks around the digits are ignored
ParseInt(chars) ==
    IF IsDigits(Strip(chars)) THEN [err |-> "none", value |-> Value(Strip(chars))]
    ELSE [err |-> "ValueError", value |-> 0]

\* float(chars) for texts of blanks, a sign, digits and periods: digits on at least one
\* side of at most one period; digits after the ninth of the fraction are not kept
ParseFloat(chars) ==
    LET body == Strip(chars)
        neg == body # <<>> /\ Head(body) = "-"
        digits == IF neg THEN Tail(body) ELSE body
        periods == {i \in DOMAIN digits : digits[i] = "."}
        dot == IF periods = {} THEN Len(digits) + 1 ELSE CHOOSE i \in periods : TRUE
        whole == SubSeq(digits, 1, dot - 1)
        fraction == SubSeq(digits, dot + 1, IF Len(digits) < dot + 9 THEN Len(digits) ELSE dot + 9)
        AllDigits(t) == \A i \in DOMAIN t : t[i] \in Range(DigitChars)
    IN  IF \/ Cardinality(periods) > 1
           \/ ~AllDigits(whole) \/ ~AllDigits(SubSeq(digits, dot + 1, Len(digits)))
           \/ (whole = <<>> /\ fraction = <<>>)
        THEN [err |-> "ValueError", value |-> Num(FALSE, 0, 0)]
        ELSE [err |-> "none",
              value |-> Num(neg /\ (Value(whole) # 0 \/ Value(fraction) # 0), Value(whole),
                            Value(fraction) * Pow10(9 - Len(fraction)))]

(***************************************************************************)
(* to_gro (gromacs.py 24-112): the lines of the coordinate file.           *)
(***************************************************************************)
\* chars[a:b]
Slice(chars, a, b) == SubSeq(chars, a + 1, IF b < Len(chars) THEN b ELSE Len(chars))

Zero == Num(FALSE, 0, 0)

\* the values of decimal that the exports are called with
GroDecimals == 3..8

TitleLine ==
    <<"G", "e", "n", "e", "r", "a", "t", "e", "d", " ", "b", "y", " ", "O", "p", "e", "n", "F", "F">>

\* the name of the residue of every atom (res.name)
ResidueName == <<"U", "N", "K">>

\* f"{element_symbol}{elements[element_symbol]}" (line 428)
AtomTypeName(atom_type) ==
    (IF atom_type.element = 6 THEN <<"C">> ELSE <<"H">>) \o Digits(atom_type.count)

\* lines 64-75 and 82-93: one record of the file
gro_record(residue_idx, residue_name, atom_name, atom_index, position, n) ==
    FormatD(residue_idx, 5) \o PadRight(residue_name, 5) \o PadLeft(atom_name, 5)
        \o FormatD(atom_index, 5)
        \o FormatF(position[1], n + 5, n) \o FormatF(position[2], n + 5, n)
        \o FormatF(position[3], n + 5, n)

\* lines 41-42: the positions rounded to decimal places
rounded_positions(s, n) ==
    [a \in 1..s.n_atoms |-> [i \in 1..3 |-> Round(s.positions[a][i], n)]]

\* lines 55-75
gro_atom_records(s, tm, n) ==
    [a \in 1..s.n_atoms |->
        gro_record((s.residue[a] + 1) % 100000, Slice(ResidueName, 0, 5),
                   AtomTypeName(tm[a]), ((a - 1) + 1) % 100000,
                   rounded_positions(s, n)[a], n)]

\* mutation of gro_virtual_site_records: the records are numbered from 1
gro_virtual_site_records_renumbered(vsm, n) ==
    [k \in 1..Len(vsm) |-> gro_record(1, <<>>, <<"V", "S">>, k, <<Zero, Zero, Zero>>, n)]

\* lines 77-93
gro_virtual_site_records(vsm, n) ==
    [k \in 1..Len(vsm) |-> gro_record(1, <<>>, <<"V", "S">>, vsm[k].pot, <<Zero, Zero, Zero>>, n)]

\* lines 95-112
gro_box_line(s) ==
    LET eye11 == [i \in 1..3 |-> [j \in 1..3 |-> IF i = j THEN Num(FALSE, 11, 0) ELSE Zero]]
        box == IF s.box.given THEN s.box.m ELSE eye11
        Flatten3(fields) == fields[1] \o fields[2] \o fields[3]
        diagonal == Flatten3([i \in 1..3 |-> FormatF(box[i][i], 11, 7)])
        row(i) == LET others == [k \in 1..2 |-> IF k < i THEN k ELSE k + 1]
                  IN  FormatF(box[i][others[1]], 11, 7) \o FormatF(box[i][others[2]], 11, 7)
    IN  IF \A i, j \in 1..3 : i # j => box[i][j] = Zero
        THEN diagonal
        ELSE diagonal \o Flatten3([i \in 1..3 |-> row(i)])

to_gro(s, n) ==
    LET tm == _build_typemap(s)
        vsm == _build_virtual_site_map(s)
        n_particles == s.n_atoms + Len(vsm)
    IN  <<TitleLine, Digits(n_particles)>>
            \o gro_atom_records(s, tm, n)
            \o gro_virtual_site_records(vsm, n)
            \o <<gro_box_line(s)>>

(***************************************************************************)
(* from_gro (gromacs.py 115-179)                                           *)
(***************************************************************************)
\* file.readline(): the empty text at the end of the file
ReadLine(file, k) == IF k \in DOMAIN file THEN file[k] ELSE <<>>

\* lines 123-134
_infer_coord_precision(file) ==
    LET atom_line == ReadLine(file, 3)
        period_indices == {i \in DOMAIN atom_line : atom_line[i] = "."}
        last == CHOOSE i \in period_indices : \A j \in period_indices : j <= i
        before == CHOOSE i \in period_indices \ {last} :
                        \A j \in period_indices \ {last} : j <= i
    IN  IF Cardinality(period_indices) < 2 THEN [err |-> "IndexError", precision |-> 0]
        ELSE [err |-> "none", precision |-> (last - before) - 5]

\* lines 153-162: the records coordinate_index..n_atoms
RECURSIVE gro_read_records(_, _, _, _)
gro_read_records(file, coordinate_columns, n_atoms, coordinate_index) ==
    IF coordinate_index > n_atoms THEN [err |-> "none", coordinates |-> <<>>]
    ELSE LET line == ReadLine(file, 2 + coordinate_index)
             x == ParseFloat(Slice(line, coordinate_columns[1], coordinate_columns[2]))
             y == ParseFloat(Slice(line, coordinate_columns[2], coordinate_columns[3]))
             z == ParseFloat(Slice(line, coordinate_columns[3], coordinate_columns[4]))
             rest == gro_read_records(file, coordinate_columns, n_atoms, coordinate_index + 1)
         IN  IF \/ ParseInt(Slice(line, 0, 5)).err # "none"
                \/ ParseInt(Slice(line, 15, 20)).err # "none"
                \/ x.err # "none" \/ y.err # "none" \/ z.err # "none"
             THEN [err |-> "ValueError", coordinates |-> <<>>]
             ELSE [err |-> rest.err,
                   coordinates |-> <<<<x.value, y.value, z.value>>>> \o rest.coordinates]

NoRead(e) == [err |-> e, precision |-> 0, positions |-> <<>>, box |-> <<>>]

from_gro(file) ==
    LET inferred == _infer_coord_precision(file)
        coordinate_width == inferred.precision + 5
        coordinate_columns == [k \in 1..4 |-> 20 + (k - 1) * coordinate_width]
        n_atoms == ParseInt(ReadLine(file, 2))
        records == gro_read_records(file, coordinate_columns, n_atoms.value, 1)
        fields == Split(ReadLine(file, 3 + n_atoms.value))
        parsed_box == [k \in DOMAIN fields |-> ParseFloat(fields[k])]
    IN  IF inferred.err # "none" THEN NoRead(inferred.err)
        ELSE IF n_atoms.err # "none" THEN NoRead(n_atoms.err)
        ELSE IF records.err # "none" THEN NoRead(records.err)
        ELSE IF \E k \in DOMAIN parsed_box : parsed_box[k].err # "none" THEN NoRead("ValueError")
        ELSE IF Len(parsed_box) # 3 THEN NoRead("UnboundLocalError")
        ELSE [err |-> "none", precision |-> inferred.precision,
              positions |-> records.coordinates,
              box |-> [i \in 1..3 |-> [j \in 1..3 |->
                        IF i = j THEN parsed_box[i].value ELSE Zero]]]

(***************************************************************************)
(* The exported models.  Mol4 is the molecule 1-0-2-3 (atom 0 bonded to 1  *)
(* and 2, atom 2 to 3) with every interaction parametrised; the families   *)
(* below vary one part of it each.                                         *)
(***************************************************************************)
NonbondedHandlers == {"vdW", "Buckingham-6", "Electrostatics"}

Potentials(equal_lengths) ==
    [h \in HandlerNames |->
        CASE h = "vdW" -> [p \in 1..3 |-> [sigma |-> 4 * p * p, epsilon |-> 4 * (3 - p) * (3 - p)]]
          [] h = "Buckingham-6" -> [p \in 1..3 |-> [A |-> 1000 + p, B |-> 30 + p, C |-> 2 + p]]
          [] h = "Bonds" ->
                [p \in 1..12 |-> [length |-> IF equal_lengths /\ p <= 2 THEN 10 ELSE 10 + p,
                                  k |-> 100 + p]]
          [] h = "Angles" -> [p \in 1..12 |-> [angle |-> 100 + p, k |-> 50 + p]]
          [] h = "VirtualSites" ->
                [p \in 1..2 |-> [distance |-> 3 + p, inPlaneAngle |-> 110 + p,
                                 outOfPlaneAngle |-> IF p = 1 THEN 0 ELSE 30]]
          [] OTHER -> [p \in 1..12 |-> [k |-> 8 * p, periodicity |-> p, phase |-> 180, idivf |-> 1]]]

Keyed(tuples) == [n \in DOMAIN tuples |-> Entry(TopologyKey(tuples[n]), n)]

AtomSlots(elements) ==
    [a \in DOMAIN elements |-> Entry(TopologyKey(<<a - 1>>), IF elements[a] = 1 THEN 1 ELSE 2)]

\* positions of n atoms, in nanometres
DefaultPositions(n) ==
    [a \in 1..n |-> <<Num(FALSE, a, 250000000), Num(a % 2 = 0, 0, 125000000 * a), Zero>>]

Mol4 ==
    [handlers |-> HandlerNames \ {"Buckingham-6", "VirtualSites"},
     mixing_rule |-> [h \in {"vdW", "Buckingham-6"} |-> "lorentz-berthelot"],
     scale_14 |-> [h \in NonbondedHandlers |->
                    IF h = "Electrostatics" THEN 5 ELSE IF h = "vdW" THEN 3 ELSE 4],
     n_atoms |-> 4,
     elements |-> <<6, 1, 6, 1>>,
     residue |-> <<0, 0, 0, 0>>,
     positions |-> DefaultPositions(4),
     box |-> [given |-> FALSE, m |-> <<>>],
     charges |-> <<0, 1, 0, -1>>,
     charges_with_virtual_sites |-> <<>>,
     bonds |-> << <<0, 1>>, <<0, 2>>, <<2, 3>> >>,
     angles |-> << <<1, 0, 2>>, <<0, 2, 3>> >>,
     propers |-> << <<1, 0, 2, 3>> >>,
     impropers |-> <<>>,
     pairs |-> << <<1, 3>> >>,
     slot_map |->
        [h \in HandlerNames |->
            CASE h = "vdW" -> AtomSlots(<<6, 1, 6, 1>>)
              [] h = "Buckingham-6" -> AtomSlots(<<6, 1, 6, 1>>)
              [] h = "Bonds" -> Keyed(<< <<0, 1>>, <<0, 2>>, <<2, 3>> >>)
              [] h = "Angles" -> Keyed(<< <<1, 0, 2>>, <<0, 2, 3>> >>)
              [] h = "ProperTorsions" -> Keyed(<< <<1, 0, 2, 3>> >>)
              [] h = "RBTorsions" -> Keyed(<< <<1, 0, 2, 3>> >>)
              [] OTHER -> <<>>],
     potentials |-> Potentials(TRUE)]

\* the model s with the virtual sites vs (entries of the VirtualSites slot map);
\* every virtual site has a vdW entry and a charge
WithVirtualSites(s, vs) ==
    [s EXCEPT !.slot_map["VirtualSites"] = vs,
              !.slot_map["vdW"] = AtomSlots(s.elements) \o [n \in DOMAIN vs |-> Entry(vs[n].key, 3)],
              !.charges_with_virtual_sites = [n \in DOMAIN vs |-> 0]]

\* the virtual sites a model can declare: a key and its parameter set
\* (parameter set 1 is in the plane, parameter set 2 is 30 degrees out of it)
VirtualSiteChoices ==
    {Entry(VirtualSiteKey(<<0, 1>>, "BondCharge"), 1),
     Entry(VirtualSiteKey(<<1, 0>>, "BondCharge"), 1),
     Entry(VirtualSiteKey(<<2, 0>>, "BondCharge"), 2),
     Entry(VirtualSiteKey(<<2, 0, 1>>, "MonovalentLonePair"), 1),
     Entry(VirtualSiteKey(<<0, 1, 2>>, "MonovalentLonePair"), 2),
     Entry(VirtualSiteKey(<<1, 0, 2>>, "DivalentLonePair"), 1),
     Entry(VirtualSiteKey(<<2, 0, 1>>, "DivalentLonePair"), 2),
     Entry(VirtualSiteKey(<<0, 1, 2>>, "TrivalentLonePair"), 1)}

\* the sequences of at most n distinct elements of S
RECURSIVE SeqsUpTo(_, _)
SeqsUpTo(S, n) ==
    IF n = 0 THEN {<<>>}
    ELSE LET shorter == SeqsUpTo(S, n - 1)
         IN  shorter \cup {Append(q, x) : q \in shorter, x \in S}

DistinctSeqsUpTo(S, n) ==
    {q \in SeqsUpTo(S, n) : \A i, j \in DOMAIN q : i # j => q[i] # q[j]}

\* the nonbonded handlers and their mixing rules vary
GateModels ==
    {[WithVirtualSites(Mol4, <<>>) EXCEPT
        !.handlers = {"Bonds", "Angles", "ProperTorsions"} \cup nb,
        !.mixing_rule = [h \in {"vdW", "Buckingham-6"} |-> IF h = "vdW" THEN r1 ELSE r2]] :
        nb \in SUBSET NonbondedHandlers, r1 \in MixingRules, r2 \in MixingRules}

\* Mol3 is the molecule 1-0-2: no torsion, no 1-4 pair
Mol3 ==
    [Mol4 EXCEPT
        !.n_atoms = 3, !.elements = <<6, 1, 6>>, !.residue = <<0, 0, 0>>,
        !.positions = DefaultPositions(3),
        !.charges = <<0, 1, -1>>,
        !.bonds = << <<0, 1>>, <<0, 2>> >>, !.angles = << <<1, 0, 2>> >>,
        !.propers = <<>>, !.pairs = <<>>,
        !.slot_map = [h \in HandlerNames |->
            CASE h = "vdW" -> AtomSlots(<<6, 1, 6>>)
              [] h = "Buckingham-6" -> AtomSlots(<<6, 1, 6>>)
              [] h = "Bonds" -> Keyed(<< <<0, 1>>, <<0, 2>> >>)
              [] h = "Angles" -> Keyed(<< <<1, 0, 2>> >>)
              [] OTHER -> <<>>]]

\* the valence and virtual-site handlers present vary, with every sequence of
\* supported in-plane virtual sites; Lennard-Jones on Mol4, Buckingham on Mol3
SectionModels ==
    {[WithVirtualSites(base[2], vs) EXCEPT !.handlers = {base[1], "Electrostatics"} \cup hs] :
        base \in {<<"vdW", Mol4>>, <<"Buckingham-6", Mol3>>},
        hs \in SUBSET (ValenceHandlers \cup {"VirtualSites"}),
        vs \in DistinctSeqsUpTo({c \in VirtualSiteChoices :
                                    /\ c.key.type \in SupportedVirtualSiteTypes
                                    /\ c.pot = 1}, MaxVS)}

\* the virtual sites vary, with equal or unequal lengths of the bonds 0-1 and 0-2
VirtualSiteModels ==
    {[WithVirtualSites(Mol4, vs) EXCEPT
        !.handlers = (HandlerNames \ {"Buckingham-6"}),
        !.potentials = Potentials(eq)] :
        vs \in DistinctSeqsUpTo(VirtualSiteChoices, MaxVS), eq \in BOOLEAN}

\* the chain molecule 0-1-...-(n-1): tuples of m consecutive atoms
Chain(n, m) == [i \in 1..(n - m + 1) |-> [j \in 1..m |-> i + j - 2]]

\* the endpoints of the torsions of the chain, as _iterate_pairs would yield them
ChainPairs(n) == [i \in 1..(IF n >= 4 THEN n - 3 ELSE 0) |-> <<i - 1, i + 2>>]

ChainMol(n, handlers) ==
    [Mol4 EXCEPT
        !.handlers = handlers,
        !.n_atoms = n, !.elements = [a \in 1..n |-> 6], !.residue = [a \in 1..n |-> 0],
        !.positions = DefaultPositions(n),
        !.charges = [a \in 1..n |-> 0],
        !.bonds = Chain(n, 2), !.angles = Chain(n, 3), !.propers = Chain(n, 4),
        !.pairs = ChainPairs(n),
        !.slot_map = [h \in HandlerNames |->
            CASE h = "vdW" -> AtomSlots([a \in 1..n |-> 6])
              [] h = "Bonds" /\ h \in handlers -> Keyed(Chain(n, 2))
              [] h = "Angles" /\ h \in handlers -> Keyed(Chain(n, 3))
              [] h = "ProperTorsions" /\ h \in handlers -> Keyed(Chain(n, 4))
              [] OTHER -> <<>>],
        !.potentials = Potentials(FALSE)]

\* how the slot map holds the entries of one interaction: none, the declared
\* order, the reverse order, or both (in either insertion order)
SlotChoices == {"none", "f", "r", "fr", "rf"}

\* the entries of interaction n under a choice; entry pots are 2n-1 (as given)
\* and 2n (reversed)
ChoiceEntries(t, n, choice) ==
    LET f == Entry(TopologyKey(t), 2 * n - 1)
        r == Entry(TopologyKey(Reverse(t)), 2 * n)
    IN  CASE choice = "none" -> <<>>
          [] choice = "f" -> <<f>>
          [] choice = "r" -> <<r>>
          [] choice = "fr" -> <<f, r>>
          [] OTHER -> <<r, f>>

RECURSIVE SlotMapOf(_, _, _)
SlotMapOf(tuples, choice, n) ==
    IF n > Len(tuples) THEN <<>>
    ELSE ChoiceEntries(tuples[n], n, choice[n]) \o SlotMapOf(tuples, choice, n + 1)

\* tuples with those flagged in flip reversed
Flipped(tuples, flip) == [n \in DOMAIN tuples |-> IF flip[n] THEN Reverse(tuples[n]) ELSE tuples[n]]

\* the bonds are declared in either direction, their entries vary
BondModels ==
    LET base == ChainMol(NVaried + 1, {"vdW", "Electrostatics", "Bonds"})
    IN  {[base EXCEPT !.bonds = Flipped(base.bonds, flip),
                      !.slot_map["Bonds"] = SlotMapOf(base.bonds, choice, 1)] :
            flip \in [1..NVaried -> BOOLEAN], choice \in [1..NVaried -> SlotChoices]}

\* the angles are yielded in either direction, their entries vary
AngleModels ==
    LET base == ChainMol(NVaried + 2, {"vdW", "Electrostatics", "Bonds", "Angles"})
    IN  {[base EXCEPT !.angles = Flipped(base.angles, flip),
                      !.slot_map["Angles"] = SlotMapOf(base.angles, choice, 1)] :
            flip \in [1..NVaried -> BOOLEAN], choice \in [1..NVaried -> SlotChoices]}

\* the molecule 0-1-2-3 with atom 4 bonded to atom 1: two proper torsions and
\* one improper torsion, whose entries and handlers vary
TorsionMol ==
    [ChainMol(5, {"vdW", "Electrostatics"}) EXCEPT
        !.bonds = << <<0, 1>>, <<1, 2>>, <<2, 3>>, <<1, 4>> >>,
        !.angles = << <<0, 1, 2>>, <<1, 2, 3>>, <<0, 1, 4>>, <<2, 1, 4>> >>,
        !.propers = << <<0, 1, 2, 3>>, <<4, 1, 2, 3>> >>,
        !.impropers = << <<0, 1, 2, 4>> >>,
        !.pairs = << <<0, 3>>, <<3, 4>> >>]

TorsionSlotChoices == {"none", "f", "r", "ff"}

TorsionEntries(t, n, choice) ==
    CASE choice = "none" -> <<>>
      [] choice = "f" -> <<Entry(TorsionKey(t, 0), 2 * n - 1)>>
      [] choice = "r" -> <<Entry(TorsionKey(Reverse(t), 0), 2 * n)>>
      [] OTHER -> <<Entry(TorsionKey(t, 0), 2 * n - 1), Entry(TorsionKey(t, 1), 2 * n)>>

TorsionModels ==
    {[TorsionMol EXCEPT
        !.handlers = {"vdW", "Electrostatics"} \cup hs,
        !.slot_map["ProperTorsions"] =
            TorsionEntries(TorsionMol.propers[1], 1, c1) \o TorsionEntries(TorsionMol.propers[2], 2, c2),
        !.slot_map["RBTorsions"] = TorsionEntries(TorsionMol.propers[1], 3, rb),
        !.slot_map["ImproperTorsions"] = TorsionEntries(TorsionMol.impropers[1], 4, im)] :
        hs \in SUBSET {"ProperTorsions", "RBTorsions", "ImproperTorsions"},
        c1 \in TorsionSlotChoices, c2 \in TorsionSlotChoices,
        rb \in {"none", "f"}, im \in {"none", "f", "r"}}

\* the ring 0-1-2-3-4-5-0: each of its 1-4 pairs closes two torsion paths.
\* What _iterate_pairs yields varies: any tuples of these pairs, in any order,
\* either atom first.
Ring(m) == [i \in 1..6 |-> [j \in 1..m |-> (i + j - 2) % 6]]

PairYieldChoices == {<<0, 3>>, <<3, 0>>, <<1, 4>>, <<4, 1>>}

PairModels ==
    LET base == [ChainMol(6, {"vdW", "Electrostatics"}) EXCEPT
                    !.bonds = Ring(2), !.angles = Ring(3), !.propers = Ring(4)]
    IN  {[base EXCEPT !.pairs = ys] : ys \in SeqsUpTo(PairYieldChoices, MaxPairYields)}

\* the endpoints of the 1-4 pair of Mol4 take either parameter set, under
\* either supported mixing rule and two scale factors
MixingModels ==
    {[Mol4 EXCEPT
        !.handlers = {"vdW", "Electrostatics"},
        !.mixing_rule["vdW"] = r,
        !.scale_14["vdW"] = sc,
        !.slot_map["vdW"] = [a \in 1..4 |->
            Entry(TopologyKey(<<a - 1>>), IF a = 2 THEN p1 ELSE IF a = 4 THEN p2 ELSE 3)]] :
        r \in {"lorentz-berthelot", "geometric"}, sc \in {2, 3},
        p1 \in {1, 2}, p2 \in {1, 2}}

\* one DivalentLonePair site on Mol4, its central atom being atom 0 (sides 1
\* and 2) or atom 2 (sides 0 and 3), declared with the central atom first or
\* in the middle, in or out of the plane; the lengths of the three bonds vary
DivalentSiteChoices ==
    {<<0, 1, 2>>, <<1, 0, 2>>, <<2, 0, 1>>, <<2, 0, 3>>, <<0, 2, 3>>, <<3, 2, 0>>}

DivalentModels ==
    {[WithVirtualSites(Mol4, <<Entry(VirtualSiteKey(t, "DivalentLonePair"), p)>>) EXCEPT
        !.handlers = (HandlerNames \ {"Buckingham-6"}),
        !.potentials["Bonds"] =
            [b \in 1..12 |-> [length |-> IF b <= 3 THEN lens[b] ELSE 10 + b, k |-> 100 + b]]] :
        t \in DivalentSiteChoices, p \in {1, 2}, lens \in [1..3 -> {10, 11}]}

\* coordinates in nanometres: one that rounds by ties, a negative one that rounds to zero,
\* one that fills its field at every precision, and two that are wider than the field
CoordinateChoices ==
    {Num(FALSE, 1, 234567894), Num(FALSE, 0, 500000), Num(TRUE, 0, 400),
     Num(TRUE, 999, 123456789), Num(FALSE, 9999, 999999999), Num(FALSE, 12345, 0)}

\* no box, a rectangular box and a box with one non-zero off-diagonal component
BoxChoices ==
    LET Diagonal(a, b, c) ==
            [i \in 1..3 |-> [j \in 1..3 |-> IF i # j THEN Zero ELSE <<a, b, c>>[i]]]
    IN
    {[given |-> FALSE, m |-> <<>>],
     [given |-> TRUE, m |-> Diagonal(Num(FALSE, 4, 0), Num(FALSE, 5, 500000000), Num(FALSE, 6, 0))],
     [given |-> TRUE,
      m |-> [Diagonal(Num(FALSE, 4, 0), Num(FALSE, 4, 0), Num(FALSE, 4, 0))
                EXCEPT ![2][1] = Num(FALSE, 1, 250000000)]]}

GroModels ==
    {[WithVirtualSites(Mol4, vs) EXCEPT
        !.handlers = IF vs = <<>> THEN Mol4.handlers ELSE Mol4.handlers \cup {"VirtualSites"},
        !.positions[1] = <<x, y, Zero>>,
        !.box = box] :
        x \in CoordinateChoices, y \in CoordinateChoices, box \in BoxChoices,
        vs \in {<<>>, <<Entry(VirtualSiteKey(<<1, 0>>, "BondCharge"), 1)>>}}

Models ==
    DivalentModels \cup GateModels \cup SectionModels \cup VirtualSiteModels \cup BondModels
        \cup AngleModels \cup TorsionModels \cup PairModels \cup MixingModels \cup GroModels

(***************************************************************************)
(* to_top (gromacs.py 182-216) and the call of the legacy _write_bonds.    *)
(***************************************************************************)
Init ==
    /\ sys \in Models
    /\ pc = "start"
    /\ opened = FALSE
    /\ top_file = <<>>
    /\ err = "none"
    /\ typemap = <<>>
    /\ virtual_site_map = <<>>
    /\ legacy_pc = "start"
    /\ legacy_file = <<>>
    /\ gro_pc = "start"
    /\ gro_file = <<>>
    /\ decimal = 8
    /\ interchange = NoRead("none")

\* a statement of the with block: what it writes reaches the file, and an
\* exception ends the export
\* a writer that removes from the model the slots it has translated
Write_consuming(here, res, next) ==
    /\ pc = here
    /\ top_file' = top_file \o res.out
    /\ err' = res.err
    /\ pc' = IF res.err = "none" THEN next ELSE "failed"
    /\ sys' = IF here = "_write_bonds" THEN [sys EXCEPT !.slot_map["Bonds"] = <<>>] ELSE sys
    /\ UNCHANGED <<opened, legacy_pc, legacy_file, gro_vars>>

Write(here, res, next) ==
    /\ pc = here
    /\ top_file' = top_file \o res.out
    /\ err' = res.err
    /\ pc' = IF res.err = "none" THEN next ELSE "failed"
    /\ UNCHANGED <<sys, opened, legacy_pc, legacy_file, gro_vars>>

\* lines 198-199
to_top_open ==
    /\ pc = "start"
    /\ opened' = TRUE
    /\ top_file' = <<Row("comment", [text |-> "; Generated by OpenFF Interchange"])>>
    /\ pc' = "_write_top_defaults"
    /\ UNCHANGED <<sys, err, typemap, virtual_site_map, legacy_pc, legacy_file, gro_vars>>

\* line 200
WriteTopDefaults ==
    /\ Write("_write_top_defaults", _write_top_defaults(sys), "_build_typemap")
    /\ UNCHANGED <<typemap, virtual_site_map>>

\* line 201
BuildTypemap ==
    /\ pc = "_build_typemap"
    /\ typemap' = _build_typemap(sys)
    /\ pc' = "_build_virtual_site_map"
    /\ UNCHANGED <<sys, opened, top_file, err, virtual_site_map, legacy_pc, legacy_file, gro_vars>>

\* line 202
BuildVirtualSiteMap ==
    /\ pc = "_build_virtual_site_map"
    /\ virtual_site_map' = _build_virtual_site_map(sys)
    /\ pc' = "_write_atomtypes"
    /\ UNCHANGED <<sys, opened, top_file, err, typemap, legacy_pc, legacy_file, gro_vars>>

\* line 203
WriteAtomtypes ==
    /\ Write("_write_atomtypes", _write_atomtypes(sys, typemap, virtual_site_map),
             "_write_moleculetype")
    /\ UNCHANGED <<typemap, virtual_site_map>>

\* line 208
WriteMoleculetype ==
    /\ Write("_write_moleculetype", _write_moleculetype, "_write_atoms")
    /\ UNCHANGED <<typemap, virtual_site_map>>

\* line 209; the loop of line 649 visits the set of line 648 in some order
WriteAtoms ==
    /\ \E order \in OrdersOf(Range(sys.pairs)) :
          Write("_write_atoms", _write_atoms(sys, typemap, virtual_site_map, order), "_write_bonds")
    /\ UNCHANGED <<typemap, virtual_site_map>>

\* line 210 (_write_valence, lines 879-881)
WriteBonds ==
    /\ Write("_write_bonds", _write_bonds(sys), "_write_angles")
    /\ UNCHANGED <<typemap, virtual_site_map>>

WriteAngles ==
    /\ Write("_write_angles", _write_angles(sys), "_write_dihedrals")
    /\ UNCHANGED <<typemap, virtual_site_map>>

WriteDihedrals ==
    /\ Write("_write_dihedrals", _write_dihedrals(sys), "_write_virtual_sites")
    /\ UNCHANGED <<typemap, virtual_site_map>>

\* lines 211-215
WriteVirtualSites ==
    /\ Write("_write_virtual_sites", _write_virtual_sites(sys, virtual_site_map), "_write_system")
    /\ UNCHANGED <<typemap, virtual_site_map>>

\* line 216, and the end of the with block
WriteSystem ==
    /\ Write("_write_system", _write_system, "done")
    /\ UNCHANGED <<typemap, virtual_site_map>>

\* the legacy exporter's _write_bonds (internal.py 223) on the same model
\* The calls are made one after another, to_top first; once it has returned the caller
\* runs either the legacy exporter or the coordinate export.  The exports share nothing
\* but the model.
SystemWriteAtomtypes ==
    /\ pc \in {"done", "failed"}
    /\ gro_pc = "start"
    /\ legacy_pc = "start"
    /\ LET res == system_write_atomtypes(sys)
       IN  /\ legacy_file' = res.out
           /\ legacy_pc' = IF res.err = "none" THEN "_write_valence" ELSE "failed"
    /\ UNCHANGED <<sys, pc, opened, top_file, err, typemap, virtual_site_map, gro_vars>>

SystemWriteBonds ==
    /\ legacy_pc = "_write_valence"
    /\ LET res == system_write_bonds(sys)
       IN  /\ legacy_file' = legacy_file \o res.out
           /\ legacy_pc' = IF res.err = "none" THEN "done" ELSE "failed"
    /\ UNCHANGED <<sys, pc, opened, top_file, err, typemap, virtual_site_map, gro_vars>>

\* to_gro(openff_sys, file_path, decimal), called once to_top has returned
ToGro ==
    /\ pc \in {"done", "failed"}
    /\ legacy_pc = "start"
    /\ gro_pc = "start"
    /\ \E n \in GroDecimals :
        /\ decimal' = n
        /\ gro_file' = to_gro(sys, n)
    /\ gro_pc' = "written"
    /\ UNCHANGED <<sys, pc, opened, top_file, err, typemap, virtual_site_map,
                   legacy_pc, legacy_file, interchange>>

\* from_gro(file_path) on the file that to_gro wrote
FromGro ==
    /\ gro_pc = "written"
    /\ interchange' = from_gro(gro_file)
    /\ gro_pc' = IF interchange'.err = "none" THEN "read" ELSE "failed"
    /\ UNCHANGED <<sys, pc, opened, top_file, err, typemap, virtual_site_map,
                   legacy_pc, legacy_file, gro_file, decimal>>

Next ==
    \/ to_top_open
    \/ WriteTopDefaults
    \/ BuildTypemap
    \/ BuildVirtualSiteMap
    \/ WriteAtomtypes
    \/ WriteMoleculetype
    \/ WriteAtoms
    \/ WriteBonds
    \/ WriteAngles
    \/ WriteDihedrals
    \/ WriteVirtualSites
    \/ WriteSystem
    \/ SystemWriteAtomtypes
    \/ SystemWriteBonds
    \/ ToGro
    \/ FromGro

Spec == Init /\ [][Next]_vars

(***************************************************************************)
(* Vocabulary of the properties.                                           *)
(***************************************************************************)
ToTopSteps ==
    <<"start", "_write_top_defaults", "_build_typemap", "_build_virtual_site_map",
      "_write_atomtypes", "_write_moleculetype", "_write_atoms", "_write_bonds",
      "_write_angles", "_write_dihedrals", "_write_virtual_sites", "_write_system", "done">>

StepNo(step) == CHOOSE i \in DOMAIN ToTopSteps : ToTopSteps[i] = step

\* the statement `step` of to_top has returned without raising
Completed(step) == pc # "failed" /\ StepNo(pc) > StepNo(step)

\* to_top raised inside the writer of section sec
FailedIn(sec) == pc = "failed" /\ Len(top_file) > 0 /\ top_file[Len(top_file)].sec = sec

HeaderIdx(file) == {i \in DOMAIN file : file[i].hdr}
RowIdx(file, sec) == {i \in DOMAIN file : file[i].sec = sec /\ ~file[i].hdr}

SectionOrder ==
    <<"defaults", "atomtypes", "moleculetype", "atoms", "pairs", "bonds", "angles",
      "dihedrals", "virtual_sites2", "virtual_sites3", "exclusions", "system", "molecules">>

SectionRank(sec) == CHOOSE i \in DOMAIN SectionOrder : SectionOrder[i] = sec

\* the slot-map entries of handler h whose atom indices are t or its reverse
EntriesEitherOrder(h, t) ==
    {n \in DOMAIN sys.slot_map[h] :
        \/ sys.slot_map[h][n].key.atom_indices = t
        \/ sys.slot_map[h][n].key.atom_indices = Reverse(t)}

(***************************************************************************)
(* C1.  When both "vdW" and "Buckingham-6" are present, to_top raises      *)
(* UnsupportedExportError before any output is produced: at the raise the  *)
(* target file has not been opened or truncated and holds no line.         *)
(* Stated for the models whose vdW mixing rule is supported, so that the    *)
(* error is the one of _write_atomtypes (line 462).  The code opens the     *)
(* file and writes [ defaults ] first: violated.                           *)
(***************************************************************************)
C1_RaisesBeforeAnyOutput ==
    (/\ {"vdW", "Buckingham-6"} \subseteq sys.handlers
     /\ sys.mixing_rule["vdW"] \in {"lorentz-berthelot", "geometric"}
     /\ err = "UnsupportedExportError")
        => (~opened /\ top_file = <<>>)

(***************************************************************************)
(* C2.  A failing to_top never leaves a partial file: when a virtual-site  *)
(* geometry error is raised (NotImplementedError of _write_virtual_sites), *)
(* no section has been committed to the target file.                       *)
(* The earlier sections are already in the file: violated.                 *)
(***************************************************************************)
C2_NoPartialFileOnGeometryError ==
    (pc = "failed" /\ err = "NotImplementedError") => HeaderIdx(top_file) = {}

(***************************************************************************)
(* C3.  In every successful to_top run the section headers written appear  *)
(* in the order of SectionOrder, each at most once.                        *)
(***************************************************************************)
C3_SectionsInOrder ==
    pc = "done" =>
        \A i, j \in HeaderIdx(top_file) :
            i < j => SectionRank(top_file[i].sec) < SectionRank(top_file[j].sec)

\* a successful run that wrote all thirteen sections for virtual sites whose
\* first declared site is not a BondCharge
C3_Witness ==
    /\ pc = "done"
    /\ Cardinality(HeaderIdx(top_file)) = Len(SectionOrder)
    /\ sys.slot_map["VirtualSites"][1].key.type # "BondCharge"

(***************************************************************************)
(* C4.  _build_virtual_site_map gives the virtual site at 0-based position *)
(* k of the VirtualSites slot map the index N + 1 + k: the indices are     *)
(* exactly N+1..N+V, pairwise distinct, none a real-atom index 1..N; the   *)
(* map is empty without a VirtualSites handler.                            *)
(***************************************************************************)
C4_VirtualSiteIndices ==
    Completed("_build_virtual_site_map") =>
        IF "VirtualSites" \notin sys.handlers THEN virtual_site_map = <<>>
        ELSE LET V == Len(sys.slot_map["VirtualSites"])
                 N == sys.n_atoms
             IN  /\ Len(virtual_site_map) = V
                 /\ \A k \in 1..V :
                       /\ virtual_site_map[k].key = sys.slot_map["VirtualSites"][k].key
                       /\ virtual_site_map[k].pot = N + 1 + (k - 1)
                 /\ {virtual_site_map[k].pot : k \in 1..V} = (N + 1)..(N + V)
                 /\ \A k, l \in 1..V : k # l => virtual_site_map[k].pot # virtual_site_map[l].pot
                 /\ \A k \in 1..V : virtual_site_map[k].pot \notin 1..N

\* the map of a model with at least two virtual sites has been built
C4_Witness ==
    /\ Completed("_build_virtual_site_map")
    /\ "VirtualSites" \in sys.handlers
    /\ Len(virtual_site_map) >= 2

(***************************************************************************)
(* C5.  Every [ bonds ] row lists its two 1-based atom indices in strictly *)
(* ascending order, whichever atom the bond declares first, in the file of *)
(* to_top and in the file of the legacy exporter.                          *)
(***************************************************************************)
C5_BondRowsAscending ==
    /\ \A i \in RowIdx(top_file, "bonds") : top_file[i].f.ai < top_file[i].f.aj
    /\ \A i \in RowIdx(legacy_file, "bonds") : legacy_file[i].f.ai < legacy_file[i].f.aj

\* both exporters wrote the row of a bond declared with its higher atom first
C5_Witness ==
    /\ \E i \in RowIdx(top_file, "bonds") :
          sys.bonds[top_file[i].f.bond][1] > sys.bonds[top_file[i].f.bond][2]
    /\ \E i \in RowIdx(legacy_file, "bonds") :
          sys.bonds[legacy_file[i].f.bond][1] > sys.bonds[legacy_file[i].f.bond][2]

(***************************************************************************)
(* C6.  _write_bonds emits the rows of the bonds in order, one per bond,   *)
(* each with the length and k of a Bonds entry whose atom indices are the  *)
(* bond's atoms, forward or reversed; a bond without such an entry gets no *)
(* row and the export fails there.                                         *)
(***************************************************************************)
BondRowSeq == [n \in 1..Cardinality(RowIdx(top_file, "bonds")) |->
                top_file[CHOOSE i \in RowIdx(top_file, "bonds") :
                            Cardinality({j \in RowIdx(top_file, "bonds") : j < i}) = n - 1].f]

C6_BondRowsResolved ==
    "Bonds" \in sys.handlers =>
        /\ Len(BondRowSeq) <= Len(sys.bonds)
        /\ \A n \in DOMAIN BondRowSeq :
              /\ BondRowSeq[n].bond = n
              /\ \E e \in EntriesEitherOrder("Bonds", sys.bonds[n]) :
                    /\ BondRowSeq[n].length = sys.potentials["Bonds"][sys.slot_map["Bonds"][e].pot].length
                    /\ BondRowSeq[n].k = sys.potentials["Bonds"][sys.slot_map["Bonds"][e].pot].k
        /\ Completed("_write_bonds") => Len(BondRowSeq) = Len(sys.bonds)
        /\ \A n \in DOMAIN sys.bonds :
              EntriesEitherOrder("Bonds", sys.bonds[n]) = {} =>
                  /\ ~Completed("_write_bonds")
                  /\ Len(BondRowSeq) < n

\* the first bond was resolved through an entry stored in reverse order only,
\* and the export failed at the second bond, which has no entry
C6_Witness ==
    /\ FailedIn("bonds")
    /\ err = "UnboundLocalError"
    /\ Len(BondRowSeq) = 1
    /\ Len(sys.bonds) >= 2
    /\ EntriesEitherOrder("Bonds", sys.bonds[2]) = {}
    /\ \A e \in EntriesEitherOrder("Bonds", sys.bonds[1]) :
          sys.slot_map["Bonds"][e].key.atom_indices = Reverse(SortedTuple(sys.bonds[1]))

(***************************************************************************)
(* C7.  _write_angles resolves every angle against an Angles entry whose   *)
(* atom indices are the angle's, forward or reversed: once the loop has    *)
(* run, an angle that has such an entry (as have the angles before it) has *)
(* a row with the theta and k of one of them.                              *)
(* The scan tests the forward order only: violated.                        *)
(***************************************************************************)
AnglesRan == Completed("_write_angles") \/ FailedIn("angles")

C7_AnglesResolvedInEitherOrder ==
    ("Angles" \in sys.handlers /\ AnglesRan) =>
        \A n \in DOMAIN sys.angles :
            (\A m \in 1..n : EntriesEitherOrder("Angles", sys.angles[m]) # {}) =>
                \E i \in RowIdx(top_file, "angles") :
                    /\ top_file[i].f.angle = n
                    /\ \E e \in EntriesEitherOrder("Angles", sys.angles[n]) :
                          /\ top_file[i].f.theta = sys.potentials["Angles"][sys.slot_map["Angles"][e].pot].angle
                          /\ top_file[i].f.k = sys.potentials["Angles"][sys.slot_map["Angles"][e].pot].k

(***************************************************************************)
(* C8.  An angle with no matching Angles entry makes the export fail, and  *)
(* no row is ever emitted for it.                                          *)
(* pot_key keeps the value bound for an earlier angle: violated.           *)
(***************************************************************************)
C8_NoRowForUnresolvedAngle ==
    "Angles" \in sys.handlers =>
        \A n \in DOMAIN sys.angles :
            EntriesEitherOrder("Angles", sys.angles[n]) = {} =>
                /\ ~Completed("_write_angles")
                /\ \A i \in RowIdx(top_file, "angles") : top_file[i].f.angle # n

(***************************************************************************)
(* C9.  With the ProperTorsions (ImproperTorsions) handler present,        *)
(* _write_dihedrals never returns having written no [ dihedrals ] row for  *)
(* a proper (improper) torsion of the graph.                               *)
(* A torsion without a matching entry is skipped silently: violated.       *)
(***************************************************************************)
C9_NoTorsionSkipped ==
    Completed("_write_dihedrals") =>
        /\ "ProperTorsions" \in sys.handlers =>
              \A n \in DOMAIN sys.propers :
                  \E i \in RowIdx(top_file, "dihedrals") : top_file[i].f.torsion = <<"proper", n>>
        /\ "ImproperTorsions" \in sys.handlers =>
              \A n \in DOMAIN sys.impropers :
                  \E i \in RowIdx(top_file, "dihedrals") : top_file[i].f.torsion = <<"improper", n>>

(***************************************************************************)
(* C10.  The [ pairs ] section holds at most one row per unordered atom    *)
(* pair, whichever atom of the pair _iterate_pairs yields first.           *)
(* The set of line 648 holds the tuples as yielded, (i, j) and (j, i) are  *)
(* two of its elements: violated.                                          *)
(***************************************************************************)
C10_OneRowPerUnorderedPair ==
    \A i, j \in RowIdx(top_file, "pairs") :
        i # j => <<top_file[i].f.ai, top_file[i].f.aj>> # <<top_file[j].f.ai, top_file[j].f.aj>>

(***************************************************************************)
(* C11.  Every [ pairs ] row carries the mixed parameters of its two       *)
(* endpoints, each resolved on its own through the vdW slot map: sigma is  *)
(* their arithmetic mean under "lorentz-berthelot" and their geometric     *)
(* mean under "geometric"; epsilon is the geometric mean of the two        *)
(* epsilons times the scale_14 of the vdW handler.                         *)
(***************************************************************************)
EndpointParameters(atom_no) ==
    sys.potentials["vdW"][DictGet(sys.slot_map["vdW"], TopologyKey(<<atom_no - 1>>))]

C11_PairsMixed ==
    \A i \in RowIdx(top_file, "pairs") :
        LET row == top_file[i].f
            q1 == EndpointParameters(row.ai)
            q2 == EndpointParameters(row.aj)
        IN  /\ "vdW" \in sys.handlers
            /\ sys.mixing_rule["vdW"] \in {"lorentz-berthelot", "geometric"}
            /\ sys.mixing_rule["vdW"] = "lorentz-berthelot"
                    => 2 * row.sigma = q1.sigma + q2.sigma
            /\ sys.mixing_rule["vdW"] = "geometric"
                    => row.sigma * row.sigma = q1.sigma * q2.sigma
            /\ \E e \in 0..(q1.epsilon + q2.epsilon) :
                    /\ e * e = q1.epsilon * q2.epsilon
                    /\ row.epsilon = e * sys.scale_14["vdW"]

\* a geometric-rule export has written the row of a pair whose endpoints differ
C11_Witness ==
    /\ pc = "done"
    /\ sys.mixing_rule["vdW"] = "geometric"
    /\ \E i \in RowIdx(top_file, "pairs") :
            /\ EndpointParameters(top_file[i].f.ai).sigma
                    # EndpointParameters(top_file[i].f.aj).sigma
            /\ top_file[i].f.sigma * 2
                    # EndpointParameters(top_file[i].f.ai).sigma
                        + EndpointParameters(top_file[i].f.aj).sigma

(***************************************************************************)
(* C12.  The compatibility gate: the checks of _write_top_defaults and of  *)
(* _write_atomtypes.  The gate has let the export through once the         *)
(* [ atomtypes ] header is in the file.                                    *)
(***************************************************************************)
ActiveHandlers == sys.handlers \cap {"vdW", "Buckingham-6"}
GatePassed == \E i \in DOMAIN top_file : top_file[i].sec = "atomtypes"
GateDecided == pc = "failed" \/ GatePassed

C13_DefaultsLine ==
    \A i \in RowIdx(top_file, "defaults") :
        LET row == top_file[i].f
            active == IF "vdW" \in sys.handlers THEN "vdW" ELSE "Buckingham-6"
        IN  /\ active \in sys.handlers
            /\ active = "vdW" => row.nbfunc = 1
            /\ active = "Buckingham-6" => row.nbfunc = 2
            /\ sys.mixing_rule[active] = "lorentz-berthelot" => row.comb_rule = 2
            /\ sys.mixing_rule[active] = "geometric" => row.comb_rule = 3
            /\ row.gen_pairs = "no"
            /\ row.scale_lj = sys.scale_14[active]
            /\ row.scale_qq = sys.scale_14["Electrostatics"]

\* the defaults line of a Buckingham-6 model under the geometric rule is written
C13_Witness ==
    /\ RowIdx(top_file, "defaults") # {}
    /\ ActiveHandlers = {"Buckingham-6"}
    /\ sys.mixing_rule["Buckingham-6"] = "geometric"
    /\ sys.scale_14["Buckingham-6"] # sys.scale_14["vdW"]

(***************************************************************************)
(* C14.  Every [ virtual_sites2 ] row is the row of a BondCharge site: its *)
(* two parents in declared order, construction function 2, and a equal to  *)
(* the distance of the site's parameters; once _write_virtual_sites has    *)
(* returned, every BondCharge site has exactly one such row.               *)
(***************************************************************************)
SiteParameters(key) ==
    sys.potentials["VirtualSites"][DictGet(sys.slot_map["VirtualSites"], key)]

\* the rows of section sec written for the virtual site key
SiteRows(sec, key) ==
    {i \in RowIdx(top_file, sec) :
        \E n \in DOMAIN virtual_site_map :
            virtual_site_map[n].key = key /\ virtual_site_map[n].pot = top_file[i].f.site}

SiteKeys(type) ==
    {sys.slot_map["VirtualSites"][n].key : n \in
        {m \in DOMAIN sys.slot_map["VirtualSites"] :
            sys.slot_map["VirtualSites"][m].key.type = type}}

C14_BondChargeRows ==
    /\ \A i \in RowIdx(top_file, "virtual_sites2") :
            \E key \in SiteKeys("BondCharge") :
                /\ i \in SiteRows("virtual_sites2", key)
                /\ top_file[i].f.ai = key.atom_indices[1] + 1
                /\ top_file[i].f.aj = key.atom_indices[2] + 1
                /\ top_file[i].f.funct = 2
                /\ top_file[i].f.a = SiteParameters(key).distance
    /\ (Completed("_write_virtual_sites") /\ "VirtualSites" \in sys.handlers) =>
            \A key \in SiteKeys("BondCharge") :
                Cardinality(SiteRows("virtual_sites2", key)) = 1

\* two BondCharge sites on the same parents, declared in opposite orders with
\* the same parameters, have their rows: opposite parents, the same a
C14_Witness ==
    /\ Completed("_write_virtual_sites")
    /\ \E i, j \in RowIdx(top_file, "virtual_sites2") :
            /\ top_file[i].f.ai = top_file[j].f.aj
            /\ top_file[i].f.aj = top_file[j].f.ai
            /\ top_file[i].f.ai > top_file[i].f.aj
            /\ top_file[i].f.a = top_file[j].f.a

(***************************************************************************)
(* C15.  A model with a MonovalentLonePair site whose out-of-plane angle   *)
(* is not zero is never exported: _write_virtual_sites does not return,    *)
(* and no [ virtual_sites3 ] row is ever written for that site.            *)
(***************************************************************************)
C15_MonovalentOutOfPlaneFails ==
    "VirtualSites" \in sys.handlers =>
        \A key \in SiteKeys("MonovalentLonePair") :
            SiteParameters(key).outOfPlaneAngle # 0 =>
                /\ ~Completed("_write_virtual_sites")
                /\ SiteRows("virtual_sites3", key) = {}

\* the export of a model whose only virtual site is an out-of-plane
\* MonovalentLonePair has failed after the [ virtual_sites3 ] header
C15_Witness ==
    /\ FailedIn("virtual_sites3")
    /\ err = "NotImplementedError"
    /\ Len(sys.slot_map["VirtualSites"]) = 1
    /\ \E key \in SiteKeys("MonovalentLonePair") : SiteParameters(key).outOfPlaneAngle # 0

(***************************************************************************)
(* C16.  The [ virtual_sites3 ] row of a MonovalentLonePair site with zero *)
(* out-of-plane angle lists the three parents in ascending order, with     *)
(* first coefficient 180 minus the in-plane angle and second coefficient   *)
(* the distance; once _write_virtual_sites has returned, every such site   *)
(* has exactly one row.                                                    *)
(***************************************************************************)
C16_MonovalentRows ==
    "VirtualSites" \in sys.handlers =>
        \A key \in SiteKeys("MonovalentLonePair") :
            SiteParameters(key).outOfPlaneAngle = 0 =>
                /\ \A i \in SiteRows("virtual_sites3", key) :
                        LET row == top_file[i].f
                        IN  /\ row.ai < row.aj /\ row.aj < row.ak
                            /\ {row.ai, row.aj, row.ak}
                                    = {a + 1 : a \in Range(key.atom_indices)}
                            /\ row.a = 180 - SiteParameters(key).inPlaneAngle
                            /\ row.b = SiteParameters(key).distance
                /\ Completed("_write_virtual_sites") =>
                        Cardinality(SiteRows("virtual_sites3", key)) = 1

\* an in-plane MonovalentLonePair site declared in non-ascending order has its row
C16_Witness ==
    /\ Completed("_write_virtual_sites")
    /\ \E key \in SiteKeys("MonovalentLonePair") :
            /\ SiteParameters(key).outOfPlaneAngle = 0
            /\ key.atom_indices[1] > key.atom_indices[2]
            /\ SiteRows("virtual_sites3", key) # {}

(***************************************************************************)
(* C17.  For a DivalentLonePair site the bonds whose lengths are resolved  *)
(* and compared are those from the central parent (the parent bonded to    *)
(* the two others) to each side atom, whichever of the three has the       *)
(* lowest index; when these two lengths differ the export fails and the    *)
(* site gets no row.                                                       *)
(* The code takes the parent of lowest index as the central one: with      *)
(* central atom 2 and side atoms 0 and 3 it resolves the bonds 0-2 and     *)
(* 0-3.  Violated.                                                         *)
(***************************************************************************)
Bonded(a, b) == \E n \in DOMAIN sys.bonds : Range(sys.bonds[n]) = {a, b}

CentralAtom(key) ==
    CHOOSE c \in Range(key.atom_indices) :
        \A side \in Range(key.atom_indices) \ {c} : Bonded(c, side)

\* the configured length of the bond between atoms a and b
BondLength(a, b) ==
    LET n == CHOOSE m \in DOMAIN sys.slot_map["Bonds"] :
                Range(sys.slot_map["Bonds"][m].key.atom_indices) = {a, b}
    IN  sys.potentials["Bonds"][sys.slot_map["Bonds"][n].pot].length

\* the translation of the DivalentLonePair site key has been entered: it is
\* the first site written under the [ virtual_sites3 ] header
DivalentEntered(key) ==
    /\ "VirtualSites" \in sys.handlers
    /\ \E i \in HeaderIdx(top_file) : top_file[i].sec = "virtual_sites3"
    /\ key = KeysOfType(sys.slot_map["VirtualSites"], "DivalentLonePair", 1)[1]

C17_CentralBondsCompared ==
    \A key \in SiteKeys("DivalentLonePair") :
        DivalentEntered(key) =>
            LET c == CentralAtom(key)
                sides == Range(key.atom_indices) \ {c}
            IN  /\ {Range(k.atom_indices) : k \in Range(divalent_bond_keys(key))}
                        = {{c, side} : side \in sides}
                /\ (\E s1, s2 \in sides : BondLength(c, s1) # BondLength(c, s2)) =>
                        /\ ~Completed("_write_virtual_sites")
                        /\ SiteRows("virtual_sites3", key) = {}

(***************************************************************************)
(* C18.  The row of a DivalentLonePair site with equal parent bond lengths *)
(* and zero out-of-plane angle uses construction function 1, and both of   *)
(* its placement slots carry a = -distance / (2 cos(angle/2) bond_length), *)
(* angle being the angle at the central atom and bond_length the common    *)
(* length of its two bonds; once _write_virtual_sites has returned, every  *)
(* such site has exactly one row.                                          *)
(***************************************************************************)
\* the configured angle between the bonds c-s1 and c-s2
AngleAt(c, s1, s2) ==
    LET n == CHOOSE m \in DOMAIN sys.slot_map["Angles"] :
                sys.slot_map["Angles"][m].key.atom_indices \in {<<s1, c, s2>>, <<s2, c, s1>>}
    IN  sys.potentials["Angles"][sys.slot_map["Angles"][n].pot].angle

ExclusionRowSeq ==
    [n \in 1..Cardinality(RowIdx(top_file, "exclusions")) |->
        top_file[CHOOSE i \in RowIdx(top_file, "exclusions") :
                    Cardinality({j \in RowIdx(top_file, "exclusions") : j < i}) = n - 1].f]

ExclusionsWritten == \E i \in HeaderIdx(top_file) : top_file[i].sec = "exclusions"

C19_ExclusionLines ==
    /\ ExclusionsWritten =>
            /\ "VirtualSites" \in sys.handlers
            /\ Len(ExclusionRowSeq) = Len(sys.slot_map["VirtualSites"])
            /\ \A n \in DOMAIN ExclusionRowSeq :
                    LET key == sys.slot_map["VirtualSites"][n].key
                    IN  /\ ExclusionRowSeq[n].site = sys.n_atoms + n
                        /\ Len(ExclusionRowSeq[n].parents) = Len(key.atom_indices)
                        /\ \A i \in DOMAIN key.atom_indices :
                                ExclusionRowSeq[n].parents[i] = key.atom_indices[i] + 1
    /\ (Completed("_write_virtual_sites") /\ "VirtualSites" \in sys.handlers) =>
            ExclusionsWritten

\* the exclusions of two sites are written, the first declared site being
\* translated after the second and having its parents in non-ascending order
C19_Witness ==
    /\ ExclusionsWritten
    /\ Len(ExclusionRowSeq) = 2
    /\ sys.slot_map["VirtualSites"][1].key.type = "MonovalentLonePair"
    /\ sys.slot_map["VirtualSites"][2].key.type = "BondCharge"
    /\ ExclusionRowSeq[1].parents[1] > ExclusionRowSeq[1].parents[2]

(***************************************************************************)
(* C20.  A model whose VirtualSites slot map holds a key of a type other   *)
(* than BondCharge, MonovalentLonePair and DivalentLonePair is not         *)
(* exported: no line of [ virtual_sites2 ], [ virtual_sites3 ] or          *)
(* [ exclusions ] is ever written, wherever the key stands in the slot     *)
(* map, and the export fails.                                              *)
(***************************************************************************)
UnsupportedSiteDeclared ==
    /\ "VirtualSites" \in sys.handlers
    /\ \E n \in DOMAIN sys.slot_map["VirtualSites"] :
            sys.slot_map["VirtualSites"][n].key.type \notin SupportedVirtualSiteTypes

NoSiteTranslated ==
    /\ ~Completed("_write_virtual_sites")
    /\ \A i \in DOMAIN top_file :
            top_file[i].sec \notin {"virtual_sites2", "virtual_sites3", "exclusions"}

\* C20 as claimed: the error is UnsupportedExportError.  The code raises
\* NotImplementedError (line 688): violated.
C20_UnsupportedSiteAsClaimed ==
    UnsupportedSiteDeclared =>
        /\ NoSiteTranslated
        /\ pc = "failed" => err = "UnsupportedExportError"

\* C20 as amended: the error is NotImplementedError.
C20_UnsupportedSiteFailsFirst ==
    UnsupportedSiteDeclared =>
        /\ NoSiteTranslated
        /\ pc = "failed" => err = "NotImplementedError"

\* the export has failed on an unsupported site declared after a supported one
C20_Witness ==
    /\ pc = "failed"
    /\ err = "NotImplementedError"
    /\ Len(sys.slot_map["VirtualSites"]) = 2
    /\ sys.slot_map["VirtualSites"][1].key.type = "BondCharge"
    /\ sys.slot_map["VirtualSites"][2].key.type \notin SupportedVirtualSiteTypes
    /\ \E i \in HeaderIdx(top_file) : top_file[i].sec = "dihedrals"

(***************************************************************************)
(* C21.  For every decimal in 3..8 and every model without virtual sites   *)
(* whose coordinates fit the field width, from_gro of the file written by  *)
(* to_gro infers the precision decimal and returns as many positions as    *)
(* the model has, each within 10^-decimal nm of the model's.               *)
(***************************************************************************)
C21_RoundTrip ==
    LET \* every coordinate, printed with n decimals, is n + 5 characters wide
        FitsFieldWidth(n) ==
            \A a \in 1..sys.n_atoms : \A i \in 1..3 :
                Len(FormatF(sys.positions[a][i], n + 5, n)) = n + 5
        \* | x - y | <= 10^-n
        Within(x, y, n) ==
            LET tol == Pow10(9 - n)
                hi == IF x.int >= y.int THEN x ELSE y
                lo == IF x.int >= y.int THEN y ELSE x
            IN  IF x.neg # y.neg
                THEN x.int = 0 /\ y.int = 0 /\ x.frac + y.frac <= tol
                ELSE \/ hi.int = lo.int /\ hi.frac - lo.frac <= tol /\ lo.frac - hi.frac <= tol
                     \/ hi.int = lo.int + 1 /\ (1000000000 - lo.frac) + hi.frac <= tol
    IN  (/\ gro_pc \in {"read", "failed"}
         /\ _build_virtual_site_map(sys) = <<>>
         /\ FitsFieldWidth(decimal)) =>
            /\ interchange.err = "none"
            /\ interchange.precision = decimal
            /\ Len(interchange.positions) = sys.n_atoms
            /\ \A a \in 1..sys.n_atoms : \A i \in 1..3 :
                    Within(interchange.positions[a][i], sys.positions[a][i], decimal)

C24_OneIndexPerVirtualSite ==
    LET V == Len(_build_virtual_site_map(sys))
        N == sys.n_atoms
        Index(k) == virtual_site_map[k].pot
        Key(k) == virtual_site_map[k].key
        Record(i) == gro_file[2 + i]
    IN  /\ (pc = "done" /\ "VirtualSites" \in sys.handlers) =>
            \A k \in 1..V :
                /\ Cardinality({i \in RowIdx(top_file, "atoms") :
                        top_file[i].f.num = Index(k)}) = 1
                /\ Cardinality({top_file[i].f.site : i \in
                        SiteRows("virtual_sites2", Key(k)) \cup SiteRows("virtual_sites3", Key(k))})
                            = 1
                /\ ExclusionRowSeq[k].site = Index(k)
                /\ \A i \in DOMAIN Key(k).atom_indices :
                        ExclusionRowSeq[k].parents[i] = Key(k).atom_indices[i] + 1
                /\ gro_pc # "start" =>
                        /\ ParseInt(Slice(Record(Index(k)), 15, 20)).value = Index(k)
                        /\ Strip(Slice(Record(Index(k)), 10, 15)) = <<"V", "S">>
        /\ gro_pc # "start" =>
            /\ ParseInt(gro_file[2]) = [err |-> "none", value |-> N + V]
            /\ Len(gro_file) = 2 + (N + V) + 1
            /\ \A i \in 1..(N + V) :
                    /\ ParseInt(Slice(Record(i), 15, 20)).value = i
                    /\ Strip(Slice(Record(i), 10, 15)) = <<"V", "S">> <=> i > N

\* both files of a model with two virtual sites have been written
C24_Witness ==
    /\ pc = "done"
    /\ gro_pc = "written"
    /\ Len(virtual_site_map) = 2
    /\ Cardinality(RowIdx(top_file, "exclusions")) = 2

(***************************************************************************)
(* C26.  from_gro reads every coordinate file that to_gro writes and       *)
(* returns its box: for a rectangular box the three diagonal values, and   *)
(* for a non-rectangular box (nine values on the box line) a box as well,  *)
(* rather than failing.  Stated for the models whose coordinates fit the   *)
(* field width.                                                            *)
(***************************************************************************)
C26_BoxReadBack ==
    LET FitsFieldWidth(n) ==
            \A a \in 1..sys.n_atoms : \A i \in 1..3 :
                Len(FormatF(sys.positions[a][i], n + 5, n)) = n + 5
        written == IF sys.box.given
                   THEN sys.box.m
                   ELSE [i \in 1..3 |-> [j \in 1..3 |-> Num(FALSE, IF i = j THEN 11 ELSE 0, 0)]]
    IN  (gro_pc \in {"read", "failed"} /\ FitsFieldWidth(decimal)) =>
            /\ interchange.err = "none"
            /\ \A i \in 1..3 : interchange.box[i][i] = Round(written[i][i], 7)

(***************************************************************************)
(* C27.  A model whose only short-range nonbonded handler is               *)
(* "Buckingham-6", with a supported mixing rule and at least one 1-4 pair, *)
(* is exported by to_top successfully with nbfunc 2: the [ pairs ] rows    *)
(* are written without a "vdW" handler.                                    *)
(***************************************************************************)
C27_BuckinghamPairs ==
    (/\ ActiveHandlers = {"Buckingham-6"}
     /\ "Electrostatics" \in sys.handlers
     /\ sys.mixing_rule["Buckingham-6"] \in {"lorentz-berthelot", "geometric"}
     /\ sys.pairs # <<>>
     /\ pc \in {"done", "failed"}) =>
        /\ pc = "done"
        /\ \E i \in RowIdx(top_file, "defaults") : top_file[i].f.nbfunc = 2
        /\ RowIdx(top_file, "pairs") # {}

(***************************************************************************)
(* C28.  The legacy exporter's _write_atomtypes gives distinct atoms       *)
(* distinct atom-type names, so no two rows of its [ atomtypes ] section   *)
(* define the same type name.                                              *)
(***************************************************************************)
C28_LegacyTypeNamesDistinct ==
    \A i, j \in RowIdx(legacy_file, "atomtypes") :
        i # j => legacy_file[i].f.type # legacy_file[j].f.type

============================================================================
